---- MODULE Spec2Model ----
(***************************************************************************)
(* character-backend (src/server.js): the dual-backed persistence layer.   *)
(* Every collection is a JSON file kept twice: in data/<name>.json on the  *)
(* local disk and, when GITHUB_TOKEN is set, in the GitHub repository.     *)
(* load* prefers the remote copy, save* writes the local copy and then     *)
(* commits to the remote one.  Every `await` of the source is one step.    *)
(***************************************************************************)
EXTENDS Integers, Sequences, FiniteSets, TLC

\* ------------------------------------------------------------------ data

\* The four collections: PROJECTS_FILE, CHARACTERS_FILE, CHARACTER_IMAGES_FILE,
\* USERS_FILE and the repository paths data/<name>.json.
Colls == {"projects", "characters", "images", "users"}

\* Requests in flight at once (the event loop interleaves them at every await).
Procs == {"r1", "r2"}

\* A property that a JavaScript object does not have reads as undefined.
Undefined == "undefined"

None == [kind |-> "none"]
Some(v) == [kind |-> "some", v |-> v]

\* null, and a number or a timestamp that is not there.
Null == "null"
NoIndex == 0 - 1
NoTime == 0 - 1

\* JavaScript's falsy strings: undefined, null and "".
Falsy(x) == x \in {Undefined, Null, ""}

\* String.prototype.trim on the strings the requests carry.
Trim(x) ==
  CASE x = " Demo " -> "Demo"
    [] x = " "      -> ""
    [] x = " d "    -> "d"
    [] x = " ada "  -> "ada"
    [] OTHER        -> x

Project(id, name) == [id |-> id, name |-> name, description |-> Undefined, updatedAt |-> NoTime]

Character(id, first, last) ==
  [id |-> id, firstName |-> first, lastName |-> last, note |-> Undefined, createdAt |-> 1]

User(id, name, pw, role) == [id |-> id, username |-> name, password |-> pw, role |-> role, projects |-> << >>]

Image(id, cid, ord) ==
  [id |-> id, characterId |-> cid, url |-> "u", fileName |-> "", title |-> "t",
   description |-> "", positivePrompt |-> Null, negativePrompt |-> Null,
   tags |-> << >>, orderIndex |-> ord, createdAt |-> 1, createdByUserId |-> "system",
   updatedAt |-> NoTime, defaultImageId |-> Undefined]

\* The two sample projects loadProjects creates when nothing is stored.
defaultProjects == << Project("proje-1", "Ornek Proje 1"), Project("proje-2", "Ornek Proje 2") >>

\* {} : the empty projectId -> [...] / characterId -> [...] mapping.  An object
\* is kept as the sequence of its entries, in insertion order, which is the
\* order JSON.stringify writes and for...in visits.
EmptyMap == << >>

HasKey(m, k) == \E i \in 1..Len(m) : m[i].key = k

\* m[k] || []
Get(m, k) == IF HasKey(m, k) THEN m[CHOOSE i \in 1..Len(m) : m[i].key = k].val ELSE << >>

\* m[k] = v
Put(m, k, v) ==
  IF HasKey(m, k)
  THEN [i \in 1..Len(m) |-> IF m[i].key = k THEN [key |-> k, val |-> v] ELSE m[i]]
  ELSE Append(m, [key |-> k, val |-> v])

\* What each load* returns when neither store has the file.
Default(c) ==
  CASE c = "projects"   -> defaultProjects
    [] c = "characters" -> EmptyMap
    [] c = "images"     -> EmptyMap
    [] c = "users"      -> << >>

\* JSON.stringify(value, null, 2): the text of a value.  Texts and values are
\* kept apart, so a value written where a text belongs (or the reverse) shows.
Stringify(v) == [kind |-> "json", val |-> v]

\* A text JSON.parse rejects (a truncated file, an out-of-band edit).
Corrupt == [kind |-> "text", val |-> "not json"]

ParseOk(text) == text.kind = "json"
Parse(text) == text.val

\* Buffer.from(text).toString("base64") and Buffer.from(b64, "base64").toString("utf8").
Base64(text) == [kind |-> "base64", of |-> text]
FromBase64(b) == b.of

\* The blob sha GitHub reports for a file: it identifies the content.
ShaOf(text) == [kind |-> "sha", of |-> text]

NoFile == [kind |-> "nofile"]

\* A file that is there and that JSON.parse accepts.
Decodable(text) == text # NoFile /\ ParseOk(text)

Count(x, s) == Cardinality({i \in 1..Len(s) : s[i] = x})
RemoteFileOf(text) == [kind |-> "file", content |-> Base64(text), sha |-> ShaOf(text)]

\* -------------------------------------------------------------- handlers
\* The route handlers, as functions of the URL parameters p, the JSON body b,
\* the collection just loaded, the clock and a freshly generated id.  Each
\* gives the response and, when it saves, the collection to save.

\* A value of the body that is an array, a string, or absent.
NotGiven == [kind |-> "undefined", v |-> << >>]
Array(v) == [kind |-> "array", v |-> v]
Str(v) == [kind |-> "string", v |-> v]

EmptyBody ==
  [ id |-> Undefined, name |-> Undefined, description |-> Undefined,
    firstName |-> Undefined, lastName |-> Undefined, note |-> Undefined,
    url |-> Undefined, fileName |-> Undefined, title |-> Undefined,
    positivePrompt |-> Undefined, negativePrompt |-> Undefined, tags |-> NotGiven,
    createdByUserId |-> Undefined, orderIndex |-> NoIndex, defaultImageId |-> Undefined,
    imageIds |-> NotGiven,
    username |-> Undefined, password |-> Undefined, role |-> Undefined, projects |-> NotGiven ]

NoParams == [id |-> "", parent |-> ""]

Answer(status, body) == [status |-> status, resp |-> Some(body), save |-> None]
SaveAndAnswer(value, body) == [status |-> 200, resp |-> Some(body), save |-> Some(value)]
Error(msg) == [error |-> msg]

\* list.findIndex(x => x.id === id), counted from 1; 0 when there is none.
IndexOfId(list, id) ==
  IF \E i \in 1..Len(list) : list[i].id = id
  THEN CHOOSE i \in 1..Len(list) : list[i].id = id /\ \A j \in 1..(i - 1) : list[j].id # id
  ELSE 0

\* list.filter(x => x.id !== id)
WithoutId(list, id) == SelectSeq(list, LAMBDA x : x.id # id)

\* Array.prototype.sort with a comparator that orders by a pair of numbers: the
\* sort is stable, so equal elements keep their order.
LessKey(a, b) == a[1] < b[1] \/ (a[1] = b[1] /\ a[2] < b[2])

RECURSIVE StableSort(_)
StableSort(items) ==
  IF items = << >> THEN << >>
  ELSE LET rest == StableSort(SubSeq(items, 1, Len(items) - 1))
           x == items[Len(items)]
           n == Cardinality({i \in 1..Len(rest) : ~LessKey(x.key, rest[i].key)})
       IN SubSeq(rest, 1, n) \o << x >> \o SubSeq(rest, n + 1, Len(rest))

SortByKey(list, K(_)) ==
  LET sorted == StableSort([i \in 1..Len(list) |-> [key |-> K(list[i]), x |-> list[i]]])
  IN [i \in 1..Len(sorted) |-> sorted[i].x]

\* ---- projects

\* if (!name || !name.trim()) return res.status(400)...
ValidName(b) == ~Falsy(b.name) /\ ~Falsy(Trim(b.name))

get_projects(p, b, projects, now, newId) == Answer(200, projects)

post_projects(p, b, projects, now, newId) ==
  LET newProject == Project(newId, Trim(b.name))
  IN SaveAndAnswer(Append(projects, newProject), newProject)

put_projects_SaveThen404(p, b, projects, now, newId) ==
  LET projectIndex == IndexOfId(projects, p.id) IN
  IF projectIndex = 0
  THEN [status |-> 404, resp |-> Some(Error("Proje bulunamadi")), save |-> Some(projects)]
  ELSE LET updated ==
             [projects[projectIndex] EXCEPT
                !.name = Trim(b.name),
                !.description = IF b.description # Undefined THEN Trim(b.description) ELSE @,
                !.updatedAt = now]
       IN SaveAndAnswer([projects EXCEPT ![projectIndex] = updated], updated)

put_projects(p, b, projects, now, newId) ==
  LET projectIndex == IndexOfId(projects, p.id) IN
  IF projectIndex = 0 THEN Answer(404, Error("Proje bulunamadi"))
  ELSE LET updated ==
             [projects[projectIndex] EXCEPT
                !.name = Trim(b.name),
                !.description = IF b.description # Undefined THEN Trim(b.description) ELSE @,
                !.updatedAt = now]
       IN SaveAndAnswer([projects EXCEPT ![projectIndex] = updated], updated)

delete_projects_Idempotent(p, b, projects, now, newId) ==
  SaveAndAnswer(WithoutId(projects, p.id), [success |-> TRUE, message |-> "Proje silindi"])

delete_projects(p, b, projects, now, newId) ==
  LET filteredProjects == WithoutId(projects, p.id) IN
  IF Len(projects) = Len(filteredProjects) THEN Answer(404, Error("Proje bulunamadi"))
  ELSE SaveAndAnswer(filteredProjects, [success |-> TRUE, message |-> "Proje silindi"])

\* ---- characters

get_characters(p, b, allCharacters, now, newId) == Answer(200, Get(allCharacters, p.parent))

\* { id: generateCharacterId(), ...characterData, createdAt: new Date().toISOString() }
post_characters_NeedsBucket(p, b, allCharacters, now, newId) ==
  IF ~HasKey(allCharacters, p.parent) THEN Answer(404, Error("Proje bulunamadi"))
  ELSE LET projectCharacters == Get(allCharacters, p.parent)
           newCharacter ==
             [ id |-> IF b.id # Undefined THEN b.id ELSE newId,
               firstName |-> b.firstName, lastName |-> b.lastName, note |-> b.note,
               createdAt |-> now ]
       IN SaveAndAnswer(Put(allCharacters, p.parent, Append(projectCharacters, newCharacter)),
                        newCharacter)

post_characters(p, b, allCharacters, now, newId) ==
  LET projectCharacters == Get(allCharacters, p.parent)
      newCharacter ==
        [ id |-> IF b.id # Undefined THEN b.id ELSE newId,
          firstName |-> b.firstName, lastName |-> b.lastName, note |-> b.note,
          createdAt |-> now ]
  IN SaveAndAnswer(Put(allCharacters, p.parent, Append(projectCharacters, newCharacter)),
                   newCharacter)

MergedId_FromBody(b, characterId) == IF b.id # Undefined THEN b.id ELSE characterId

\* id: characterId, written after the spread of the body
MergedId(b, characterId) == characterId

\* { ...projectCharacters[characterIndex], ...characterData, id: characterId }
put_characters(p, b, allCharacters, now, newId) ==
  LET projectCharacters == Get(allCharacters, p.parent)
      characterIndex == IndexOfId(projectCharacters, p.id)
  IN
  IF characterIndex = 0 THEN Answer(404, Error("Karakter bulunamadi"))
  ELSE LET old == projectCharacters[characterIndex]
           merged ==
             [ id |-> MergedId(b, p.id),
               firstName |-> IF b.firstName # Undefined THEN b.firstName ELSE old.firstName,
               lastName |-> IF b.lastName # Undefined THEN b.lastName ELSE old.lastName,
               note |-> IF b.note # Undefined THEN b.note ELSE old.note,
               createdAt |-> old.createdAt ]
       IN SaveAndAnswer(
            Put(allCharacters, p.parent, [projectCharacters EXCEPT ![characterIndex] = merged]),
            merged)

delete_characters(p, b, allCharacters, now, newId) ==
  LET projectCharacters == Get(allCharacters, p.parent)
      filteredCharacters == WithoutId(projectCharacters, p.id)
  IN
  IF Len(projectCharacters) = Len(filteredCharacters)
  THEN Answer(404, Error("Karakter bulunamadi"))
  ELSE SaveAndAnswer(Put(allCharacters, p.parent, filteredCharacters),
                     [success |-> TRUE, message |-> "Karakter silindi"])

\* ---- character images

\* The rank the GET handler gives an image without orderIndex.
MissingOrder == 999999

\* tags.split(",").map(t => t.trim())
SplitTrim(text) ==
  CASE text = "a, b" -> << "a", "b" >>
    [] OTHER         -> << text >>

\* (a, b) => aOrder !== bOrder ? aOrder - bOrder
\*                             : new Date(a.createdAt || 0) - new Date(b.createdAt || 0)
DisplayKey(img) ==
  << IF img.orderIndex # NoIndex THEN img.orderIndex ELSE MissingOrder,
     IF img.createdAt = NoTime THEN 0 ELSE img.createdAt >>

\* (a, b) => (a.orderIndex || 0) - (b.orderIndex || 0)
StoredKey(img) == << IF img.orderIndex = NoIndex THEN 0 ELSE img.orderIndex, 0 >>

get_images(p, b, allImages, now, newId) ==
  Answer(200, SortByKey(Get(allImages, p.parent), DisplayKey))

NextOrderIndex_OneBased(characterImages) == Len(characterImages) + 1

\* orderIndex: characterImages.length
NextOrderIndex(characterImages) == Len(characterImages)

post_images(p, b, allImages, now, newId) ==
  LET characterImages == Get(allImages, p.parent)
      newImage ==
        [ id |-> newId,
          characterId |-> p.parent,
          url |-> b.url,
          fileName |-> IF Falsy(b.fileName) THEN "" ELSE b.fileName,
          title |-> Trim(b.title),
          description |-> IF Falsy(b.description) THEN "" ELSE b.description,
          positivePrompt |-> IF Falsy(b.positivePrompt) THEN Null ELSE b.positivePrompt,
          negativePrompt |-> IF Falsy(b.negativePrompt) THEN Null ELSE b.negativePrompt,
          tags |-> CASE b.tags.kind = "array" -> b.tags.v
                     [] b.tags.kind = "string" /\ b.tags.v # "" -> SplitTrim(b.tags.v)
                     [] OTHER -> << >>,
          orderIndex |-> NextOrderIndex(characterImages),
          createdAt |-> now,
          createdByUserId |-> IF Falsy(b.createdByUserId) THEN "system" ELSE b.createdByUserId,
          updatedAt |-> NoTime,
          defaultImageId |-> Undefined ]
  IN SaveAndAnswer(Put(allImages, p.parent, Append(characterImages, newImage)), newImage)

\* for (const characterId in allImages): the first bucket that holds the image.
BucketOfImage(allImages, imageId) ==
  IF \E k \in 1..Len(allImages) : IndexOfId(allImages[k].val, imageId) # 0
  THEN CHOOSE k \in 1..Len(allImages) :
         /\ IndexOfId(allImages[k].val, imageId) # 0
         /\ \A j \in 1..(k - 1) : IndexOfId(allImages[j].val, imageId) = 0
  ELSE 0

put_images(p, b, allImages, now, newId) ==
  LET k == BucketOfImage(allImages, p.id) IN
  IF k = 0 THEN Answer(404, Error("Gorsel bulunamadi"))
  ELSE LET images == allImages[k].val
           imageIndex == IndexOfId(images, p.id)
           updated ==
             [images[imageIndex] EXCEPT
                !.title = IF b.title # Undefined THEN Trim(b.title) ELSE @,
                !.description = IF b.description # Undefined THEN b.description ELSE @,
                !.positivePrompt = IF b.positivePrompt # Undefined
                                   THEN (IF Falsy(b.positivePrompt) THEN Null ELSE b.positivePrompt)
                                   ELSE @,
                !.negativePrompt = IF b.negativePrompt # Undefined
                                   THEN (IF Falsy(b.negativePrompt) THEN Null ELSE b.negativePrompt)
                                   ELSE @,
                !.tags = CASE b.tags.kind = "array" -> b.tags.v
                           [] b.tags.kind = "string" -> SplitTrim(b.tags.v)
                           [] OTHER -> @,
                !.orderIndex = IF b.orderIndex # NoIndex THEN b.orderIndex ELSE @,
                !.defaultImageId = IF b.defaultImageId # Undefined THEN b.defaultImageId ELSE @,
                !.updatedAt = now]
       IN SaveAndAnswer(
            [allImages EXCEPT ![k] = [key |-> allImages[k].key,
                                      val |-> [images EXCEPT ![imageIndex] = updated]]],
            updated)

\* imageIds.forEach((imageId, index) => { ... characterImages[imageIndex].orderIndex = index;
\* characterImages[imageIndex].updatedAt = new Date().toISOString(); })
AssignOrder_Renumber(characterImages, imageIds, done, now) ==
  [i \in 1..Len(characterImages) |->
     IF \E k \in 1..Len(imageIds) : imageIds[k] = characterImages[i].id
       THEN [characterImages[i] EXCEPT
               !.orderIndex = (CHOOSE k \in 1..Len(imageIds) :
                                 /\ imageIds[k] = characterImages[i].id
                                 /\ \A j \in (k + 1)..Len(imageIds) : imageIds[j] # imageIds[k]) - 1,
               !.updatedAt = now]
       ELSE [characterImages[i] EXCEPT !.orderIndex = Len(imageIds) + i - 1]]

RECURSIVE AssignOrder(_, _, _, _)
AssignOrder(characterImages, imageIds, done, now) ==
  IF done = Len(imageIds) THEN characterImages
  ELSE LET imageIndex == IndexOfId(characterImages, imageIds[done + 1])
           next == IF imageIndex = 0 THEN characterImages
                   ELSE [characterImages EXCEPT ![imageIndex] =
                           [@ EXCEPT !.orderIndex = done, !.updatedAt = now]]
       IN AssignOrder(next, imageIds, done + 1, now)

patch_reorder(p, b, allImages, now, newId) ==
  LET characterImages == Get(allImages, p.parent)
      sorted == SortByKey(AssignOrder(characterImages, b.imageIds.v, 0, now), StoredKey)
  IN SaveAndAnswer(Put(allImages, p.parent, sorted), [success |-> TRUE, images |-> sorted])

\* The first bucket the filter shortens.
delete_images(p, b, allImages, now, newId) ==
  LET k == BucketOfImage(allImages, p.id) IN
  IF k = 0 THEN Answer(404, Error("Gorsel bulunamadi"))
  ELSE SaveAndAnswer(
         [allImages EXCEPT ![k] = [key |-> allImages[k].key,
                                   val |-> WithoutId(allImages[k].val, p.id)]],
         [success |-> TRUE, message |-> "Gorsel silindi"])

\* ---- users

SafeUser_Full(u) == u

\* const { password: _, ...safeUser } = user;
SafeUser(u) == [id |-> u.id, username |-> u.username, role |-> u.role, projects |-> u.projects]

get_users(p, b, users, now, newId) ==
  Answer(200, [i \in 1..Len(users) |-> SafeUser(users[i])])

post_users(p, b, users, now, newId) ==
  IF \E i \in 1..Len(users) : users[i].username = b.username
  THEN Answer(400, Error("Bu kullanici adi zaten kullaniliyor"))
  ELSE LET newUser ==
             [ id |-> newId, username |-> Trim(b.username), password |-> b.password,
               role |-> b.role,
               projects |-> IF b.projects.kind = "array" THEN b.projects.v ELSE << >> ]
       IN SaveAndAnswer(Append(users, newUser), SafeUser(newUser))

put_users(p, b, users, now, newId) ==
  LET userIndex == IndexOfId(users, p.id) IN
  IF userIndex = 0 THEN Answer(404, Error("Kullanici bulunamadi"))
  ELSE IF /\ ~Falsy(b.username)
          /\ b.username # users[userIndex].username
          /\ \E j \in 1..Len(users) : users[j].username = b.username /\ users[j].id # p.id
  THEN Answer(400, Error("Bu kullanici adi zaten kullaniliyor"))
  ELSE LET updated ==
             [users[userIndex] EXCEPT
                !.username = IF b.username # Undefined THEN Trim(b.username) ELSE @,
                !.password = IF b.password # Undefined THEN b.password ELSE @,
                !.role = IF b.role # Undefined THEN b.role ELSE @,
                !.projects = CASE b.projects.kind = "array" -> b.projects.v
                               [] b.projects.kind = "string" -> << >>
                               [] OTHER -> @]
       IN SaveAndAnswer([users EXCEPT ![userIndex] = updated], SafeUser(updated))

delete_users(p, b, users, now, newId) ==
  LET filteredUsers == WithoutId(users, p.id) IN
  IF Len(users) = Len(filteredUsers) THEN Answer(404, Error("Kullanici bulunamadi"))
  ELSE SaveAndAnswer(filteredUsers, [success |-> TRUE, message |-> "Kullanici silindi"])

\* ---- dispatch

Handlers ==
  { "get_projects", "post_projects", "put_projects", "delete_projects",
    "get_characters", "post_characters", "put_characters", "delete_characters",
    "get_images", "post_images", "put_images", "patch_reorder", "delete_images",
    "get_users", "post_users", "put_users", "delete_users" }

\* The collection a handler loads and saves.
CollOf(h) ==
  CASE h \in {"get_projects", "post_projects", "put_projects", "delete_projects"} -> "projects"
    [] h \in {"get_characters", "post_characters", "put_characters", "delete_characters"} -> "characters"
    [] h \in {"get_users", "post_users", "put_users", "delete_users"} -> "users"
    [] OTHER -> "images"

\* The handlers that generate an id.
Creates(h) == h \in {"post_projects", "post_characters", "post_images", "post_users"}

BodyAccepted_Unchecked(h, b) == TRUE

\* The checks a handler makes on the body before it loads anything.
BodyAccepted(h, b) ==
  CASE h \in {"post_projects", "put_projects"} -> ValidName(b)
    [] h = "post_characters" -> ~Falsy(b.firstName) /\ ~Falsy(b.lastName)
    [] h = "post_images"     -> ~Falsy(b.url) /\ ~Falsy(b.title)
    [] h = "patch_reorder"   -> b.imageIds.kind = "array"
    [] h = "post_users"      -> ~Falsy(b.username) /\ ~Falsy(b.password) /\ ~Falsy(b.role)
    [] OTHER -> TRUE

Handle(h, p, b, data, now, newId) ==
  CASE h = "get_projects"      -> get_projects(p, b, data, now, newId)
    [] h = "post_projects"     -> post_projects(p, b, data, now, newId)
    [] h = "put_projects"      -> put_projects(p, b, data, now, newId)
    [] h = "delete_projects"   -> delete_projects(p, b, data, now, newId)
    [] h = "get_characters"    -> get_characters(p, b, data, now, newId)
    [] h = "post_characters"   -> post_characters(p, b, data, now, newId)
    [] h = "put_characters"    -> put_characters(p, b, data, now, newId)
    [] h = "delete_characters" -> delete_characters(p, b, data, now, newId)
    [] h = "get_images"        -> get_images(p, b, data, now, newId)
    [] h = "post_images"       -> post_images(p, b, data, now, newId)
    [] h = "put_images"        -> put_images(p, b, data, now, newId)
    [] h = "patch_reorder"     -> patch_reorder(p, b, data, now, newId)
    [] h = "delete_images"     -> delete_images(p, b, data, now, newId)
    [] h = "get_users"         -> get_users(p, b, data, now, newId)
    [] h = "post_users"        -> post_users(p, b, data, now, newId)
    [] h = "put_users"         -> put_users(p, b, data, now, newId)
    [] h = "delete_users"      -> delete_users(p, b, data, now, newId)

\* ----------------------------------------------------------------- state

VARIABLES
  GITHUB_TOKEN,  \* TRUE when process.env.GITHUB_TOKEN is set
  localFile,     \* collection -> text of data/<name>.json on the local disk, or NoFile
  remoteFile,    \* collection -> the file in the GitHub repository, or NoFile
  req,           \* request -> where it stands in load*/save* and what it holds
  clock,         \* Date.now()
  idSeq,         \* how many ids generate*Id has handed out
  lastSaved,     \* history: the last save* that returned and has not been disturbed
  lastLoad       \* history: the last load* that returned and has not been disturbed

vars == << GITHUB_TOKEN, localFile, remoteFile, req, clock, idSeq, lastSaved, lastLoad >>

IdleReq ==
  [ op |-> "none", coll |-> "none", pc |-> "idle",
    params |-> NoParams, body |-> EmptyBody,   \* req.params, req.body
    newId |-> "",            \* the id generate*Id gives this request
    now |-> 0,               \* the clock the handler read
    status |-> 0,            \* the HTTP status sent, 0 while none is
    code |-> 200,            \* the status the handler answers with once save* returns
    answers |-> 0,           \* how many times the handler has called res.json
    resp |-> None,           \* the JSON body sent
    arg |-> None,            \* the value handed to save*
    content |-> None,        \* the text being written or just read
    sha |-> None,            \* the sha commitToGitHub fetched
    cget |-> "none",         \* how commitToGitHub's axios.get ended
    sent |-> None,           \* the sha commitToGitHub's axios.put carried, once sent
    rget |-> "none",         \* how load*'s axios.get ended
    loadOut |-> "none", loadRet |-> None, src |-> "none",
    saveOut |-> "none", remoteOk |-> FALSE,
    loadLog |-> << >>,       \* the store calls load* made, in order
    saveLog |-> << >>,       \* the store calls save* made, in order
    wrote |-> FALSE,         \* save* has written the local file
    local0 |-> NoFile,       \* history: the local file when load* was called
    fsFault |-> FALSE,       \* an fs call of this request failed (other than ENOENT)
    dist |-> FALSE,          \* someone else changed this collection meanwhile
    raced |-> FALSE,         \* history: another request had loaded too when a save began
    last |-> FALSE,          \* history: its local write is the latest of the collection
    expSave |-> None, expLoad |-> None,
    prev |-> None,           \* history: the request this client made just before, if it saved
    hung |-> None ]          \* history: the request that was at a remote call when this one began

Init ==
  /\ GITHUB_TOKEN \in BOOLEAN
  /\ localFile = [c \in Colls |-> NoFile]
  /\ remoteFile = [c \in Colls |-> NoFile]
  /\ req = [r \in Procs |-> IdleReq]
  /\ clock = 1
  /\ idSeq = 0
  /\ lastSaved = None
  /\ lastLoad = None

InFlight(r) == req[r].pc \notin {"idle", "done"}

CanRun_Serial(r) == \A q \in Procs \ {r} : ~InFlight(q)

\* Every await hands control back to the event loop and nothing in the code
\* makes a handler wait for another one: a request whose awaited call has
\* settled runs on.
CanRun(r) == TRUE

\* History bookkeeping: every request other than r that works on collection c
\* learns that the collection was changed under it.
Disturb(rq, r, c) ==
  [q \in Procs |-> IF q # r /\ rq[q].coll = c THEN [rq[q] EXCEPT !.dist = TRUE] ELSE rq[q]]

\* History bookkeeping: the requests other than r that have loaded collection c
\* and not yet called save*, at the moment r calls save*.
Racing(rq, r, c) == {q \in Procs \ {r} : rq[q].pc = "handle" /\ rq[q].coll = c}

MarkRaced(new, old, r, c) ==
  [q \in Procs |->
     IF Racing(old, r, c) # {} /\ (q = r \/ q \in Racing(old, r, c))
       THEN [new[q] EXCEPT !.raced = TRUE] ELSE new[q]]

\* History bookkeeping: r has just written the local file of c.
MarkLast(rq, r, c) ==
  [q \in Procs |->
     IF q = r THEN [rq[q] EXCEPT !.last = TRUE]
     ELSE IF rq[q].coll = c THEN [rq[q] EXCEPT !.last = FALSE] ELSE rq[q]]

ForgetIf(h, c) == IF h # None /\ h.coll = c THEN None ELSE h

\* Requests are issued for one collection at a time: a collection is used
\* while the files of the others are still as at start.
Isolated(c) ==
  \A d \in Colls \ {c} :
    /\ localFile[d] = NoFile
    /\ remoteFile[d] = NoFile
    /\ \A q \in Procs : InFlight(q) => req[q].coll # d

\* ----------------------------------------------------------------- load*
\* loadProjects, loadCharacters, loadCharacterImages, loadUsers: the same code
\* up to the file served, the default value and the seeding of the local file.

LoadEntry_Always == "load_get"

\* if (GITHUB_TOKEN) { try { await axios.get(...) ... } } : where load* begins.
LoadEntry == IF GITHUB_TOKEN THEN "load_get" ELSE "load_read"

RefreshedLocal_Skip(old, content) == old

RefreshedLocal_Reencoded(old, content) == Stringify(Parse(content))

\* await fs.writeFile(FILE, content) after a remote read: the refreshed file.
RefreshedLocal(old, content) == content

SeedText_Empty(c) == Stringify(<< >>)

\* JSON.stringify(defaultProjects, null, 2): what loadProjects seeds the file with.
SeedText(c) == Stringify(Default(c))

LoadReturn_PreferLocal(q, v, from) ==
  [q EXCEPT !.pc = IF q.op = "load" THEN "done" ELSE "handle",
            !.loadOut = "ret", !.src = from,
            !.loadRet = Some(IF from = "remote" /\ Decodable(q.local0) THEN Parse(q.local0) ELSE v)]

\* load* returns value v, taken from store `from`.
LoadReturn(q, v, from) ==
  [q EXCEPT !.pc = IF q.op = "load" THEN "done" ELSE "handle",
            !.loadOut = "ret", !.loadRet = Some(v), !.src = from]

Caught_Silent(q) == q

\* catch (err) { console.error(...); res.status(500).json({ error: "..." }); } :
\* what every handler does with an exception of its body.
Caught(q) ==
  IF q.op \in Handlers
  THEN [q EXCEPT !.status = 500, !.resp = Some(Error("islem basarisiz")), !.answers = @ + 1]
  ELSE q

\* load* throws (only loadProjects can: its seeding is outside any try).
LoadRaise(q) == Caught([q EXCEPT !.pc = "done", !.loadOut = "raise"])

\* The catch of the local branch: loadProjects goes on to write the default
\* projects to the local file; the other three return their empty default at once.
LoadAfterLocalFailure(q) ==
  IF q.coll = "projects"
  THEN [q EXCEPT !.pc = "load_seed"]
  ELSE LoadReturn(q, Default(q.coll), "default")

LoadAfterRemoteFailure_SkipLocal(q) == LoadAfterLocalFailure(q)

LoadAfterRemoteFailure_Rethrow(q) ==
  IF q.rget \in {"error", "undecodable"} THEN LoadRaise(q) ELSE [q EXCEPT !.pc = "load_read"]

LoadAfterRemoteFailure_Retry(q) ==
  IF q.rget = "error" /\ Count("remoteGet", q.loadLog) < 2
  THEN [q EXCEPT !.pc = "load_get"]
  ELSE [q EXCEPT !.pc = "load_read"]

\* catch (err) { if (err.response?.status !== 404) console.error(...) } : every
\* failure of the remote branch, a 404 included, continues with the local file.
LoadAfterRemoteFailure(q) == [q EXCEPT !.pc = "load_read"]

\* History: what a direct call of load* that just returned leaves for the next
\* one to compare with.
NoteLoad(old, q) ==
  IF q.loadOut = "none" THEN old
  ELSE IF q.op = "load" /\ q.loadOut = "ret" /\ ~q.dist
       THEN [coll |-> q.coll, val |-> q.loadRet.v, src |-> q.src,
             fresh |-> (q.local0 = NoFile /\ ~q.fsFault)]
       ELSE None

\* History: a save* is no longer "the last save" once an fs call failed after it.
NoteFault(old, q) == IF q.fsFault THEN ForgetIf(old, q.coll) ELSE old

KeepIf(h, c) == IF h # None /\ h.coll = c THEN h ELSE None

\* A caller invokes load* of collection c.
CallLoad(r, c) ==
  /\ ~InFlight(r)
  /\ Isolated(c)
  /\ req' = [req EXCEPT ![r] =
       [IdleReq EXCEPT !.op = "load", !.coll = c, !.pc = LoadEntry,
                       !.local0 = localFile[c],
                       !.expSave = KeepIf(lastSaved, c),
                       !.expLoad = KeepIf(lastLoad, c)]]
  /\ UNCHANGED << GITHUB_TOKEN, clock, idSeq, localFile, remoteFile, lastSaved, lastLoad >>

\* const response = await axios.get(.../contents/data/<name>.json);
\* const content = Buffer.from(response.data.content, "base64").toString("utf8");
\* const value = JSON.parse(content);
load_remoteGet(r) ==
  LET q == [req[r] EXCEPT !.loadLog = Append(@, "remoteGet")]
      c == req[r].coll
  IN
  /\ req[r].pc = "load_get"
  /\ CanRun(r)
  /\ \/ \* 200 with content that parses
        /\ remoteFile[c] # NoFile
        /\ ParseOk(FromBase64(remoteFile[c].content))
        /\ req' = [req EXCEPT ![r] =
             [q EXCEPT !.pc = "load_refresh", !.rget = "ok",
                       !.content = FromBase64(remoteFile[c].content)]]
     \/ \* 200 with content JSON.parse throws on
        /\ remoteFile[c] # NoFile
        /\ ~ParseOk(FromBase64(remoteFile[c].content))
        /\ req' = [req EXCEPT ![r] = LoadAfterRemoteFailure([q EXCEPT !.rget = "undecodable"])]
     \/ \* 404: the file is not in the repository
        /\ remoteFile[c] = NoFile
        /\ req' = [req EXCEPT ![r] = LoadAfterRemoteFailure([q EXCEPT !.rget = "notfound"])]
     \/ \* any other status, or no answer at all
        /\ req' = [req EXCEPT ![r] = LoadAfterRemoteFailure([q EXCEPT !.rget = "error"])]
  /\ UNCHANGED << GITHUB_TOKEN, clock, idSeq, localFile, remoteFile, lastSaved, lastLoad >>

\* await fs.mkdir(dir, {recursive: true}); await fs.writeFile(FILE, content);
\* return value;   -- still inside the try of the remote branch.
load_refresh(r) ==
  LET q == [req[r] EXCEPT !.loadLog = Append(@, "localWrite")]
      c == req[r].coll
  IN
  /\ req[r].pc = "load_refresh"
  /\ CanRun(r)
  /\ \/ /\ localFile' = [localFile EXCEPT ![c] = RefreshedLocal(@, q.content)]
        /\ req' = Disturb([req EXCEPT ![r] = LoadReturn(q, Parse(q.content), "remote")], r, c)
        /\ lastLoad' = NoteLoad(lastLoad, LoadReturn(q, Parse(q.content), "remote"))
     \/ \* mkdir or writeFile throws: caught by the catch of the remote branch
        /\ req' = [req EXCEPT ![r] = LoadAfterRemoteFailure([q EXCEPT !.fsFault = TRUE])]
        /\ UNCHANGED << localFile, lastLoad >>
  /\ lastSaved' = NoteFault(lastSaved, req'[r])
  /\ UNCHANGED << GITHUB_TOKEN, clock, idSeq, remoteFile >>

\* try { const data = await fs.readFile(FILE, "utf8"); return JSON.parse(data); }
\* catch (err) { ... }
load_readFile(r) ==
  LET q == [req[r] EXCEPT !.loadLog = Append(@, "localRead")]
      c == req[r].coll
  IN
  /\ req[r].pc = "load_read"
  /\ CanRun(r)
  /\ \E q2 \in
         (IF localFile[c] # NoFile /\ ParseOk(localFile[c])
            THEN {LoadReturn(q, Parse(localFile[c]), "local")}
            ELSE {LoadAfterLocalFailure(q)})           \* ENOENT, or JSON.parse throws
         \cup {LoadAfterLocalFailure([q EXCEPT !.fsFault = TRUE])} :  \* the read fails
       /\ req' = [req EXCEPT ![r] = q2]
       /\ lastLoad' = NoteLoad(lastLoad, q2)
       /\ lastSaved' = NoteFault(lastSaved, q2)
  /\ UNCHANGED << GITHUB_TOKEN, clock, idSeq, localFile, remoteFile >>

\* loadProjects only: await fs.mkdir(...); await fs.writeFile(PROJECTS_FILE,
\* JSON.stringify(defaultProjects, null, 2)); return defaultProjects;
load_seed(r) ==
  LET q == [req[r] EXCEPT !.loadLog = Append(@, "localWrite")]
      c == req[r].coll
  IN
  /\ req[r].pc = "load_seed"
  /\ CanRun(r)
  /\ \/ /\ localFile' = [localFile EXCEPT ![c] = SeedText(c)]
        /\ req' = Disturb([req EXCEPT ![r] = LoadReturn(q, Default(c), "default")], r, c)
        /\ lastLoad' = NoteLoad(lastLoad, LoadReturn(q, Default(c), "default"))
     \/ \* mkdir or writeFile throws, and nothing catches it
        /\ req' = [req EXCEPT ![r] = LoadRaise([q EXCEPT !.fsFault = TRUE])]
        /\ lastLoad' = None
        /\ UNCHANGED localFile
  /\ lastSaved' = NoteFault(lastSaved, req'[r])
  /\ UNCHANGED << GITHUB_TOKEN, clock, idSeq, remoteFile >>

\* ----------------------------------------------------------------- save*
\* saveProjects, saveCharacters, saveCharacterImages, saveUsers and the
\* commitToGitHub they share.

\* save* returns normally; a handler then sends its answer: res.json(...).
SaveReturn(q) ==
  [q EXCEPT !.pc = "done", !.saveOut = "ret",
            !.status = IF q.op \in Handlers THEN q.code ELSE @,
            !.answers = IF q.op \in Handlers THEN @ + 1 ELSE @]

\* save* throws.
SaveRaise(q) == Caught([q EXCEPT !.pc = "done", !.saveOut = "raise"])

SaveNext_RemoteFirst(q, after) ==
  CASE after = "call"       -> IF GITHUB_TOKEN THEN [q EXCEPT !.pc = "save_get"]
                                               ELSE [q EXCEPT !.pc = "save_write"]
    [] after = "commit"     -> [q EXCEPT !.pc = "save_write"]
    [] after = "localWrite" -> SaveReturn(q)

\* The order of save*: the local write, then `if (GITHUB_TOKEN)` the commit.
SaveNext(q, after) ==
  CASE after = "call"       -> [q EXCEPT !.pc = "save_write"]
    [] after = "localWrite" -> IF GITHUB_TOKEN THEN [q EXCEPT !.pc = "save_get"] ELSE SaveReturn(q)
    [] after = "commit"     -> SaveReturn(q)

CommitFailed_Rethrow(q) == SaveRaise([q EXCEPT !.remoteOk = FALSE])

\* commitToGitHub threw (it logs and rethrows): try { await commitToGitHub(...) }
\* catch (err) { console.error(...) } in save* swallows it.
CommitFailed(q) == SaveReturn([q EXCEPT !.remoteOk = FALSE])

\* GitHub accepts a PUT that creates a file, or that updates it with the sha of
\* the blob it replaces.
PutAccepted(file, sha) ==
  \/ file = NoFile /\ sha = None
  \/ file # NoFile /\ sha # None /\ sha.v = file.sha

\* History: what a direct call of save* that just ended leaves for the loads
\* that follow.
NoteSave(old, q) ==
  IF q.saveOut = "none" THEN old
  ELSE IF q.op = "save" /\ q.saveOut = "ret" /\ ~q.dist
       THEN [coll |-> q.coll, val |-> q.arg.v, remoteOk |-> q.remoteOk, wiped |-> FALSE]
       ELSE None

\* History: the load* of collection c the caller made just before this save*,
\* when it returned the remote value: the sha of the blob it read, and whether
\* the repository holds something else by now.
LoadedBefore(q, c, file) ==
  IF q.op = "load" /\ q.coll = c /\ q.pc = "done" /\ q.loadOut = "ret" /\ q.src = "remote"
    THEN Some([op |-> "load", sha |-> ShaOf(q.content),
               edited |-> (file = NoFile \/ file.sha # ShaOf(q.content))])
    ELSE None

\* A caller invokes save* of collection c with value v:
\* const content = JSON.stringify(value, null, 2);
CallSave(r, c, v) ==
  /\ ~InFlight(r)
  /\ Isolated(c)
  /\ req' = [req EXCEPT ![r] =
       SaveNext([IdleReq EXCEPT !.op = "save", !.coll = c, !.arg = Some(v),
                                !.content = Stringify(v),
                                !.prev = LoadedBefore(req[r], c, remoteFile[c])], "call")]
  /\ lastSaved' = ForgetIf(lastSaved, c)
  /\ lastLoad' = ForgetIf(lastLoad, c)
  /\ UNCHANGED << GITHUB_TOKEN, clock, idSeq, localFile, remoteFile >>

\* await fs.mkdir(dir, {recursive: true}); await fs.writeFile(FILE, content);
save_localWrite(r) ==
  LET q == [req[r] EXCEPT !.saveLog = Append(@, "localWrite")]
      c == req[r].coll
  IN
  /\ req[r].pc = "save_write"
  /\ CanRun(r)
  /\ \/ /\ localFile' = [localFile EXCEPT ![c] = q.content]
        /\ req' = MarkLast(Disturb([req EXCEPT ![r] =
                      SaveNext([q EXCEPT !.wrote = TRUE], "localWrite")], r, c), r, c)
        /\ lastSaved' = NoteSave(lastSaved, SaveNext([q EXCEPT !.wrote = TRUE], "localWrite"))
     \/ \* mkdir or writeFile throws, outside any try
        /\ req' = [req EXCEPT ![r] = SaveRaise([q EXCEPT !.fsFault = TRUE])]
        /\ lastSaved' = None
        /\ UNCHANGED localFile
  /\ UNCHANGED << GITHUB_TOKEN, clock, idSeq, remoteFile, lastLoad >>

CommitAfterGet_IgnoreErrors(q, how, file) ==
  CASE how = "ok"    -> [q EXCEPT !.pc = "save_put", !.cget = how, !.sha = Some(file.sha)]
    [] how = "404"   -> [q EXCEPT !.pc = "save_put", !.cget = how, !.sha = None]
    [] how = "error" -> [q EXCEPT !.pc = "save_put", !.cget = how, !.sha = None]

CommitAfterGet_Remembered(q, how, file) ==
  CASE how = "error" -> CommitFailed([q EXCEPT !.cget = how])
    [] OTHER -> [q EXCEPT !.pc = "save_put", !.cget = how,
                          !.sha = IF q.prev # None /\ q.prev.v.op = "load"
                                    THEN Some(q.prev.v.sha)
                                    ELSE IF how = "ok" THEN Some(file.sha) ELSE None]

\* commitToGitHub after its axios.get: sha = getResponse.data.sha; on a 404 sha
\* stays null; `if (err.response?.status !== 404) throw err` for the rest.
CommitAfterGet(q, how, file) ==
  CASE how = "ok"    -> [q EXCEPT !.pc = "save_put", !.cget = how, !.sha = Some(file.sha)]
    [] how = "404"   -> [q EXCEPT !.pc = "save_put", !.cget = how, !.sha = None]
    [] how = "error" -> CommitFailed([q EXCEPT !.cget = how])

\* commitToGitHub: let sha = null; try { sha = (await axios.get(...)).data.sha }
\* catch (err) { if (err.response?.status !== 404) throw err; }
commit_remoteGet(r) ==
  LET q == [req[r] EXCEPT !.saveLog = Append(@, "remoteGet")]
      c == req[r].coll
  IN
  /\ req[r].pc = "save_get"
  /\ CanRun(r)
  /\ \E how \in {IF remoteFile[c] # NoFile THEN "ok" ELSE "404", "error"} :
       LET q2 == CommitAfterGet(q, how, remoteFile[c]) IN
       /\ req' = [req EXCEPT ![r] = q2]
       /\ lastSaved' = NoteSave(lastSaved, q2)
  /\ UNCHANGED << GITHUB_TOKEN, clock, idSeq, localFile, remoteFile, lastLoad >>

\* commitToGitHub: await axios.put(..., {message, content: base64Content, branch,
\* ...(sha && {sha})});
commit_remotePut(r) ==
  LET q == [req[r] EXCEPT !.saveLog = Append(@, "remotePut"), !.sent = Some(req[r].sha)]
      c == req[r].coll
  IN
  /\ req[r].pc = "save_put"
  /\ CanRun(r)
  /\ \/ /\ PutAccepted(remoteFile[c], q.sha)
        /\ remoteFile' = [remoteFile EXCEPT ![c] = RemoteFileOf(q.content)]
        /\ req' = Disturb([req EXCEPT ![r] = SaveNext([q EXCEPT !.remoteOk = TRUE], "commit")], r, c)
        /\ lastSaved' = NoteSave(lastSaved, SaveNext([q EXCEPT !.remoteOk = TRUE], "commit"))
     \/ \* GitHub refuses the PUT, or does not answer
        /\ req' = [req EXCEPT ![r] = CommitFailed(q)]
        /\ lastSaved' = NoteSave(lastSaved, CommitFailed(q))
        /\ UNCHANGED remoteFile
  /\ UNCHANGED << GITHUB_TOKEN, clock, idSeq, localFile, lastLoad >>

\* -------------------------------------------------------------- requests

\* Bound of the model: the ids generated in one behaviour.
MaxIds == 2

\* generateProjectId, generateCharacterId, generateImageId, generateUserId:
\* prefix + Date.now().toString(36) + "-" + random; the n-th id handed out.
GenId(c, n) ==
  CASE c = "projects"   -> << "proje-a", "proje-b", "proje-c", "proje-d" >>[n]
    [] c = "characters" -> << "char-a", "char-b", "char-c", "char-d" >>[n]
    [] c = "images"     -> << "img-a", "img-b", "img-c", "img-d" >>[n]
    [] c = "users"      -> << "user-a", "user-b", "user-c", "user-d" >>[n]

\* The requests whose outcome the history keeps for the request that follows.
Remembered == {"post_projects", "patch_reorder"}

\* The requests that are compared with the one before them.
Compared == {"get_projects", "get_images"}

\* History: what the next request of the same client remembers of request q, when
\* q answered 200 after a save and none of its fs calls failed.
PrevOf(q) ==
  IF q.op \in Remembered /\ q.pc = "done" /\ q.status = 200 /\ q.saveOut = "ret" /\ ~q.fsFault
    THEN Some([op |-> q.op, params |-> q.params, body |-> q.body, resp |-> q.resp,
               arg |-> q.arg])
    ELSE None

\* The places where a request waits for GitHub's answer.
RemotePcs == {"load_get", "save_get", "save_put"}

\* History: a request other than r that is waiting at a remote call.
HungOther(r) ==
  IF \E q \in Procs \ {r} : req[q].pc \in RemotePcs
    THEN LET q == CHOOSE q \in Procs \ {r} : req[q].pc \in RemotePcs
         IN Some([who |-> q, at |-> req[q].pc])
    ELSE None

\* History: r begins a new request, so no one is overtaking its old one any more.
ClearHung(rq, r) ==
  [q \in Procs |->
     IF q # r /\ rq[q].hung # None /\ rq[q].hung.v.who = r
       THEN [rq[q] EXCEPT !.hung = None] ELSE rq[q]]

\* A request for handler h arrives.  What the handler does before its first
\* await: it rejects a body that fails its checks, or calls load*.
Arrive(r, h, p, b) ==
  LET c == CollOf(h)
      q == [IdleReq EXCEPT !.op = h, !.coll = c, !.params = p, !.body = b,
                           !.prev = IF h \in Compared THEN PrevOf(req[r]) ELSE None,
                           !.hung = HungOther(r)]
  IN
  /\ ~InFlight(r)
  /\ Creates(h) => idSeq < MaxIds
  /\ IF ~BodyAccepted(h, b)
     THEN /\ req' = ClearHung([req EXCEPT ![r] =
                [q EXCEPT !.pc = "done", !.status = 400, !.resp = Some(Error("gerekli")),
                          !.answers = @ + 1]], r)
          /\ UNCHANGED idSeq
     ELSE /\ req' = ClearHung([req EXCEPT ![r] =
                [q EXCEPT !.pc = LoadEntry,
                          !.newId = IF Creates(h) THEN GenId(c, idSeq + 1) ELSE "",
                          !.local0 = localFile[c],
                          !.expSave = KeepIf(lastSaved, c),
                          !.expLoad = KeepIf(lastLoad, c)]], r)
          /\ idSeq' = IF Creates(h) THEN idSeq + 1 ELSE idSeq
  /\ UNCHANGED << GITHUB_TOKEN, clock, localFile, remoteFile, lastSaved, lastLoad >>

\* A request arrives for the one collection in use.
StartRequest(r, h, p, b) == Isolated(CollOf(h)) /\ Arrive(r, h, p, b)

\* The handler's code between `await load*()` and `await save*(...)`, or up to
\* its answer when it saves nothing.
Snapshot_Fresh(q) ==
  IF Decodable(localFile[q.coll]) THEN Parse(localFile[q.coll]) ELSE q.loadRet.v

\* The collection a handler works on: const projects = await loadProjects();
Snapshot(q) == q.loadRet.v

HandleLoaded(r) ==
  LET q == req[r]
      out == Handle(q.op, q.params, q.body, Snapshot(q), clock, q.newId)
  IN
  /\ q.pc = "handle"
  /\ CanRun(r)
  /\ IF out.save = None
     THEN /\ req' = [req EXCEPT ![r] =
                [q EXCEPT !.pc = "done", !.now = clock,
                          !.status = out.status, !.resp = out.resp, !.answers = @ + 1]]
          /\ UNCHANGED << lastSaved, lastLoad >>
     ELSE /\ req' = MarkRaced([req EXCEPT ![r] =
                SaveNext([q EXCEPT !.arg = out.save, !.content = Stringify(out.save.v),
                                   !.now = clock, !.code = out.status,
                                   !.resp = out.resp], "call")], req, r, q.coll)
          /\ lastSaved' = ForgetIf(lastSaved, q.coll)
          /\ lastLoad' = ForgetIf(lastLoad, q.coll)
  /\ UNCHANGED << GITHUB_TOKEN, clock, idSeq, localFile, remoteFile >>

\* ----------------------------------------------------------- environment

\* The stored values the direct callers and the out-of-band editor choose from.
Values(c) ==
  CASE c = "projects"   -> {defaultProjects, << Project("proje-3", "Demo") >>}
    [] c = "characters" -> {EmptyMap, Put(EmptyMap, "proje-1", << Character("char-1", "Ada", "Lovelace") >>)}
    [] c = "images"     -> {EmptyMap, Put(EmptyMap, "char-1", << Image("img-1", "char-1", 0) >>)}
    [] c = "users"      -> {<< >>, << User("user-1", "ada", "pw", "admin") >>}

\* The same JSON value written by another tool: JSON text that is not what
\* JSON.stringify(value, null, 2) produces.
Compact(v) == [kind |-> "json", val |-> v, fmt |-> "compact"]

\* Somebody edits, replaces or deletes the file in the repository out of band.
RemoteEdit(c) ==
  /\ Isolated(c)
  /\ \E f \in {RemoteFileOf(Stringify(v)) : v \in Values(c)}
                \cup {RemoteFileOf(Compact(Default(c))), RemoteFileOf(Corrupt), NoFile} :
       /\ f # remoteFile[c]
       /\ remoteFile' = [remoteFile EXCEPT ![c] = f]
  /\ req' = Disturb(req, "env", c)
  /\ lastSaved' = ForgetIf(lastSaved, c)
  /\ lastLoad' = ForgetIf(lastLoad, c)
  /\ UNCHANGED << GITHUB_TOKEN, clock, idSeq, localFile >>

\* The service is redeployed on fresh compute: the local disk is empty again
\* and the requests of the old process are gone.
Redeploy ==
  /\ \A r \in Procs : ~InFlight(r)
  /\ localFile # [c \in Colls |-> NoFile]
  /\ localFile' = [c \in Colls |-> NoFile]
  /\ req' = [r \in Procs |-> IdleReq]
  /\ lastSaved' = IF lastSaved = None THEN None ELSE [lastSaved EXCEPT !.wiped = TRUE]
  /\ lastLoad' = None
  /\ UNCHANGED << GITHUB_TOKEN, clock, idSeq, remoteFile >>

\* The local file is damaged (a write cut short by a crash).
LocalCorrupt(c) ==
  /\ Isolated(c)
  /\ localFile[c] \notin {NoFile, Corrupt}
  /\ localFile' = [localFile EXCEPT ![c] = Corrupt]
  /\ req' = Disturb(req, "env", c)
  /\ lastSaved' = ForgetIf(lastSaved, c)
  /\ lastLoad' = ForgetIf(lastLoad, c)
  /\ UNCHANGED << GITHUB_TOKEN, clock, idSeq, remoteFile >>

\* ------------------------------------------------------------ the system

\* The requests the clients send.
Request(h, id, parent, b) == [h |-> h, p |-> [id |-> id, parent |-> parent], b |-> b]

ProjectRequests ==
  {Request("get_projects", "", "", EmptyBody)}
  \cup {Request("post_projects", "", "", [EmptyBody EXCEPT !.name = n]) : n \in {" ", " Demo "}}
  \cup {Request("put_projects", id, "", [EmptyBody EXCEPT !.name = "Other", !.description = d]) :
          id \in {"proje-a", "nope"}, d \in {Undefined, " d "}}
  \cup {Request("put_projects", "proje-a", "", [EmptyBody EXCEPT !.description = " d "])}
  \cup {Request("delete_projects", id, "", EmptyBody) : id \in {"proje-1", "nope"}}

CharacterRequests ==
  {Request("get_characters", "", "proje-1", EmptyBody)}
  \cup {Request("post_characters", "", "proje-1",
                [EmptyBody EXCEPT !.firstName = x[1], !.lastName = "Lovelace", !.id = x[2]]) :
          x \in {<< Undefined, Undefined >>, << "Ada", Undefined >>, << "Ada", "char-x" >>}}
  \cup {Request("put_characters", id, "proje-1", [EmptyBody EXCEPT !.firstName = "Eve", !.id = i]) :
          id \in {"char-a", "nope"}, i \in {Undefined, "other"}}
  \cup {Request("delete_characters", id, "proje-1", EmptyBody) : id \in {"char-a", "nope"}}

ImageRequests ==
  {Request("get_images", "", "char-1", EmptyBody)}
  \cup {Request("post_images", "", "char-1",
                [EmptyBody EXCEPT !.url = x[1], !.title = " Demo ", !.tags = x[2]]) :
          x \in {<< Undefined, NotGiven >>, << "u", Str("a, b") >>}}
  \cup {Request("post_images", "", "char-1", [EmptyBody EXCEPT !.url = "u"])}
  \cup {Request("put_images", id, "", [EmptyBody EXCEPT !.title = x[1], !.orderIndex = x[2]]) :
          id \in {"img-a", "nope"}, x \in {<< Undefined, 0 >>, << " Demo ", NoIndex >>}}
  \cup {Request("patch_reorder", "", "char-1", [EmptyBody EXCEPT !.imageIds = ids]) :
          ids \in {NotGiven, Array(<< "img-b", "img-a" >>), Array(<< "img-b" >>)}}
  \cup {Request("delete_images", id, "", EmptyBody) : id \in {"img-a", "nope"}}

UserRequests ==
  {Request("get_users", "", "", EmptyBody)}
  \cup {Request("post_users", "", "",
                [EmptyBody EXCEPT !.username = u, !.password = "pw", !.role = "admin"]) :
          u \in {Undefined, " ada ", "bob"}}
  \cup {Request("put_users", id, "", [EmptyBody EXCEPT !.username = x[1], !.password = x[2]]) :
          id \in {"user-a", "nope"}, x \in {<< "bob", Undefined >>, << Undefined, "pw2" >>}}
  \cup {Request("delete_users", id, "", EmptyBody) : id \in {"user-a", "nope"}}

Requests == ProjectRequests \cup CharacterRequests \cup ImageRequests \cup UserRequests

\* The persistence core called directly, one call at a time.
Caller == "r1"

Step(r) ==
  \/ load_remoteGet(r)
  \/ load_refresh(r)
  \/ load_readFile(r)
  \/ load_seed(r)
  \/ save_localWrite(r)
  \/ commit_remoteGet(r)
  \/ commit_remotePut(r)

Next ==
  \/ \E c \in Colls : CallLoad(Caller, c)
  \/ \E c \in Colls : \E v \in Values(c) : CallSave(Caller, c, v)
  \/ \E r \in Procs : Step(r)
  \/ \E c \in Colls : RemoteEdit(c)
  \/ \E c \in Colls : LocalCorrupt(c)
  \/ Redeploy

Spec == Init /\ [][Next]_vars

\* The HTTP service, its requests served one after the other.
NextApi ==
  \/ \E x \in Requests : StartRequest(Caller, x.h, x.p, x.b)
  \/ \E r \in Procs : Step(r)
  \/ \E r \in Procs : HandleLoaded(r)

SpecApi == Init /\ [][NextApi]_vars

\* Bound of the model: how far the clock runs.
MaxClock == 2

\* Time passes between two requests.
Tick ==
  /\ clock < MaxClock
  /\ \A r \in Procs : ~InFlight(r)
  /\ clock' = clock + 1
  /\ UNCHANGED << GITHUB_TOKEN, localFile, remoteFile, req, idSeq, lastSaved, lastLoad >>

\* The requests that create a record and then change it.
UpdateRequests ==
  {Request("post_projects", "", "", [EmptyBody EXCEPT !.name = " Demo "])}
  \cup {Request("put_projects", "proje-a", "", [EmptyBody EXCEPT !.name = "Other", !.description = d, !.id = i]) :
          d \in {Undefined, " d "}, i \in {Undefined, "other"}}
  \cup {Request("post_characters", "", "proje-1",
                 [EmptyBody EXCEPT !.firstName = "Ada", !.lastName = "Lovelace"])}
  \cup {Request("put_characters", "char-a", "proje-1", [EmptyBody EXCEPT !.firstName = f, !.note = "n", !.id = i]) :
          f \in {Undefined, "Eve"}, i \in {Undefined, "other"}}
  \cup {Request("post_images", "", "char-1", [EmptyBody EXCEPT !.url = "u", !.title = " Demo "])}
  \cup {Request("put_images", "img-a", "", [EmptyBody EXCEPT !.title = x[1], !.tags = x[2], !.id = "other"]) :
          x \in {<< Undefined, Str("a, b") >>, << " Demo ", NotGiven >>}}
  \cup {Request("post_users", "", "", [EmptyBody EXCEPT !.username = "bob", !.password = "pw", !.role = "admin"])}
  \cup {Request("put_users", "user-a", "", [EmptyBody EXCEPT !.username = x[1], !.password = x[2], !.id = "other"]) :
          x \in {<< "eve", Undefined >>, << Undefined, "pw2" >>}}

\* The HTTP service over time, its requests served one after the other.
NextClock ==
  \/ \E x \in UpdateRequests : StartRequest(Caller, x.h, x.p, x.b)
  \/ \E r \in Procs : Step(r)
  \/ \E r \in Procs : HandleLoaded(r)
  \/ Tick

SpecClock == Init /\ [][NextClock]_vars

\* The HTTP service with two requests in progress at once: Node interleaves the
\* handlers at their awaits.
RaceRequests ==
  {Request("post_projects", "", "", [EmptyBody EXCEPT !.name = " Demo "])}
  \cup {Request("post_characters", "", "proje-1",
                 [EmptyBody EXCEPT !.firstName = "Ada", !.lastName = "Lovelace"])}

NextRace ==
  \/ \E r \in Procs : \E x \in RaceRequests : StartRequest(r, x.h, x.p, x.b)
  \/ \E r \in Procs : Step(r)
  \/ \E r \in Procs : HandleLoaded(r)

SpecRace == Init /\ [][NextRace]_vars

\* One of the two requests, whose awaited calls all settle; the calls of the
\* other may never settle.
Other == "r2"

HangRequests ==
  {Request("get_projects", "", "", EmptyBody),
   Request("put_projects", "proje-1", "", [EmptyBody EXCEPT !.name = "Other"])}

\* Two clients send one request each, at any moment.
NextHang ==
  \/ \E r \in Procs : \E x \in HangRequests :
       req[r].pc = "idle" /\ StartRequest(r, x.h, x.p, x.b)
  \/ \E r \in Procs : Step(r)
  \/ \E r \in Procs : HandleLoaded(r)

SpecHang == Init /\ [][NextHang]_vars /\ WF_vars(Step(Other) \/ HandleLoaded(Other))

\* Bound of the model: how many images the stored file holds at start.
MaxStored == 2

OldId(n) == << "old-1", "old-2", "old-3", "old-4" >>[n]

\* The images a deployment can hold before a request arrives: written by a
\* release that stored no orderIndex (the GET handler's `!== undefined` and
\* `createdAt || 0` read such records), created at different times, or given
\* an orderIndex by PUT /api/images/:id, which stores any number of its body.
StoredRanks == {NoIndex, 0, MissingOrder + 1}
StoredTimes == {NoTime, 1, 2}

StoredLists ==
  UNION {{[i \in 1..n |-> [Image(OldId(i), "char-1", f[i][1]) EXCEPT !.createdAt = f[i][2]]] :
            f \in [1..n -> StoredRanks \X StoredTimes]} : n \in 0..MaxStored}

\* The service starts on a repository and a disk that hold the images of one character.
InitStored ==
  /\ GITHUB_TOKEN \in BOOLEAN
  /\ \E list \in StoredLists :
       /\ localFile = [c \in Colls |->
            IF c = "images" THEN Stringify(Put(EmptyMap, "char-1", list)) ELSE NoFile]
       /\ remoteFile = [c \in Colls |->
            IF c = "images" THEN RemoteFileOf(Stringify(Put(EmptyMap, "char-1", list))) ELSE NoFile]
  /\ req = [r \in Procs |-> IdleReq]
  /\ clock = 3
  /\ idSeq = 0
  /\ lastSaved = None
  /\ lastLoad = None

StoredRequests ==
  {Request("get_images", "", "char-1", EmptyBody)}
  \cup {Request("patch_reorder", "", "char-1", [EmptyBody EXCEPT !.imageIds = Array(ids)]) :
          ids \in {<< "old-2", "old-1" >>, << "old-2" >>, << "nope", "old-1" >>}}

\* One request on the stored images; loadCharacterImages never seeds the file.
NextStored ==
  \/ \E x \in StoredRequests : req[Caller].pc = "idle" /\ StartRequest(Caller, x.h, x.p, x.b)
  \/ load_remoteGet(Caller)
  \/ load_refresh(Caller)
  \/ load_readFile(Caller)
  \/ HandleLoaded(Caller)
  \/ save_localWrite(Caller)
  \/ commit_remoteGet(Caller)
  \/ commit_remotePut(Caller)

SpecStored == InitStored /\ [][NextStored]_vars

\* save* called by two requests at once, each once: Node interleaves them at
\* their awaits.
NextSaves ==
  \/ \E r \in Procs : \E c \in Colls : \E v \in Values(c) :
       req[r].pc = "idle" /\ CallSave(r, c, v)
  \/ \E r \in Procs : save_localWrite(r)
  \/ \E r \in Procs : commit_remoteGet(r)
  \/ \E r \in Procs : commit_remotePut(r)

SpecSaves == Init /\ [][NextSaves]_vars

\* The requests that change the images of one character and their order; a
\* client may reorder with a list that still holds ids of images deleted since.
OrderRequests ==
  {Request("post_images", "", "char-1", [EmptyBody EXCEPT !.url = "u", !.title = " Demo "])}
  \cup {Request("patch_reorder", "", "char-1", [EmptyBody EXCEPT !.imageIds = Array(ids)]) :
          ids \in {<< "img-b", "img-a" >>, << "gone-1", "gone-2", "img-a" >>}}
  \cup {Request("delete_images", "img-a", "", EmptyBody)}

\* The image routes, their requests served one after the other;
\* loadCharacterImages never seeds the file.
NextImages ==
  \/ \E x \in OrderRequests : StartRequest(Caller, x.h, x.p, x.b)
  \/ load_remoteGet(Caller)
  \/ load_refresh(Caller)
  \/ load_readFile(Caller)
  \/ HandleLoaded(Caller)
  \/ save_localWrite(Caller)
  \/ commit_remoteGet(Caller)
  \/ commit_remotePut(Caller)

SpecImages == Init /\ [][NextImages]_vars

\* The requests that delete an owner and that create under an owner, known or not.
OwnerRequests ==
  {Request("delete_projects", "proje-1", "", EmptyBody)}
  \cup {Request("post_characters", "", parent,
                [EmptyBody EXCEPT !.firstName = "Ada", !.lastName = "Lovelace"]) :
          parent \in {"proje-1", "ghost"}}
  \cup {Request("delete_characters", "char-a", "proje-1", EmptyBody)}
  \cup {Request("post_images", "", parent, [EmptyBody EXCEPT !.url = "u", !.title = " Demo "]) :
          parent \in {"char-a", "ghost"}}

\* The routes of projects, characters and images used together, their requests
\* served one after the other.
NextOwners ==
  \/ \E x \in OwnerRequests : Arrive(Caller, x.h, x.p, x.b)
  \/ \E r \in Procs : Step(r)
  \/ \E r \in Procs : HandleLoaded(r)

SpecOwners == Init /\ [][NextOwners]_vars

\* Two requests, the second sent once the first is answered.
NextSettle ==
  \/ \E r \in Procs : \E x \in Requests :
       /\ req[r].pc = "idle"
       /\ r = Caller \/ req[Caller].pc = "done"
       /\ StartRequest(r, x.h, x.p, x.b)
  \/ \E r \in Procs : Step(r)
  \/ \E r \in Procs : HandleLoaded(r)

\* The HTTP service whose awaited calls all settle, with success or with an error.
SpecSettle ==
  Init /\ [][NextSettle]_vars /\ WF_vars(\E r \in Procs : Step(r) \/ HandleLoaded(r))

\* ------------------------------------------------------------ properties

RemoteCalls == {"remoteGet", "remotePut"}

\* load* of request r has ended, no fs call of the request failed and nobody
\* else touched the collection since it was called.
LoadEndedClean(r) == req[r].loadOut # "none" /\ ~req[r].fsFault /\ ~req[r].dist

\* The same for save*.
SaveEndedClean(r) == req[r].saveOut # "none" /\ ~req[r].fsFault /\ ~req[r].dist

\* C1: once save(V) has returned, a following load() with no remote mutation
\* (and no redeploy, no fs failure) in between returns V -- in every
\* configuration, whether or not the remote write inside save succeeded.
C1_SaveThenLoad ==
  \A r \in Procs :
    (LoadEndedClean(r) /\ req[r].expSave # None /\ ~req[r].expSave.wiped)
      => (req[r].loadOut = "ret" /\ req[r].loadRet.v = req[r].expSave.val)

\* C1, where it does hold: without a credential, or when the commit inside
\* save succeeded, the following load returns V.
C1_SaveThenLoadMirrored ==
  \A r \in Procs :
    (/\ LoadEndedClean(r)
     /\ req[r].expSave # None
     /\ ~req[r].expSave.wiped
     /\ (~GITHUB_TOKEN \/ req[r].expSave.remoteOk))
      => (req[r].loadOut = "ret" /\ req[r].loadRet.v = req[r].expSave.val)

C1_Witness ==
  \E r \in Procs :
    /\ LoadEndedClean(r)
    /\ req[r].expSave # None /\ ~req[r].expSave.wiped /\ req[r].expSave.remoteOk
    /\ req[r].src = "remote"

\* C2: save(V) does not raise when its local write succeeded, whatever the remote
\* calls did: it returns normally and the local file holds the text of V.
C2_SaveNeverRaisesOnRemote ==
  \A r \in Procs :
    /\ (req[r].saveOut # "none" /\ req[r].wrote) => req[r].saveOut = "ret"
    /\ (req[r].saveOut # "none" /\ req[r].wrote /\ ~req[r].dist)
         => localFile[req[r].coll] = Stringify(req[r].arg.v)

C2_Witness ==
  \E r \in Procs :
    /\ GITHUB_TOKEN
    /\ req[r].saveOut = "ret" /\ ~req[r].remoteOk /\ ~req[r].dist
    /\ req[r].saveLog = << "localWrite", "remoteGet", "remotePut" >>
    /\ localFile[req[r].coll] = Stringify(req[r].arg.v)

\* The store load* must have answered from: the remote file when axios.get gave
\* decodable content, else the local file when it decodes, else the default.
FirstAvailable(q) ==
  IF q.rget = "ok" THEN "remote"
  ELSE IF Decodable(q.local0) THEN "local"
  ELSE "default"

\* C3: with a credential, a 404 from the remote and a local file, load() returns
\* the decoded local content, not the default; in general load() answers from
\* the first available of remote, local, default.
C3_FallbackOrder ==
  \A r \in Procs :
    LoadEndedClean(r) =>
      /\ req[r].loadOut = "ret"
      /\ req[r].src = FirstAvailable(req[r])
      /\ (GITHUB_TOKEN /\ req[r].rget = "notfound" /\ Decodable(req[r].local0))
           => (req[r].src = "local" /\ req[r].loadRet.v = Parse(req[r].local0))

C3_Witness ==
  \E r \in Procs :
    /\ LoadEndedClean(r) /\ GITHUB_TOKEN
    /\ req[r].rget = "notfound" /\ Decodable(req[r].local0)
    /\ req[r].loadRet.v = Parse(req[r].local0)
    /\ req[r].loadRet.v # Default(req[r].coll)

\* C4: without a credential and without a local file load() returns the default
\* of the collection, and a second load() with no save in between returns the
\* same value.
C4_DefaultIsStable ==
  \A r \in Procs :
    (LoadEndedClean(r) /\ ~GITHUB_TOKEN) =>
      /\ req[r].local0 = NoFile
           => (req[r].loadOut = "ret" /\ req[r].loadRet.v = Default(req[r].coll))
      /\ (req[r].expLoad # None /\ req[r].expLoad.fresh)
           => (req[r].loadOut = "ret" /\ req[r].loadRet.v = req[r].expLoad.val
               /\ req[r].loadRet.v = Default(req[r].coll))

C4_Witness ==
  \E r \in Procs :
    /\ LoadEndedClean(r) /\ ~GITHUB_TOKEN
    /\ req[r].coll = "projects"
    /\ req[r].expLoad # None /\ req[r].expLoad.fresh
    /\ req[r].src = "local"
    /\ req[r].loadRet.v = defaultProjects

\* C5: with a credential and a remote read that succeeds with decodable content,
\* load() returns the decoded remote value whatever the local file held.
C5_RemoteWins ==
  \A r \in Procs :
    (LoadEndedClean(r) /\ GITHUB_TOKEN /\ req[r].rget = "ok") =>
      /\ req[r].loadOut = "ret"
      /\ req[r].src = "remote"
      /\ req[r].loadRet.v = Parse(FromBase64(remoteFile[req[r].coll].content))

C5_Witness ==
  \E r \in Procs :
    /\ LoadEndedClean(r) /\ GITHUB_TOKEN /\ req[r].rget = "ok"
    /\ Decodable(req[r].local0)
    /\ Parse(req[r].local0) # req[r].loadRet.v

\* C6: when the remote read of load() fails other than by 404, load() does not
\* raise and does not ask again: one remoteGet, then the local file, then the
\* default.
C6_NoRetry ==
  \A r \in Procs :
    /\ Count("remoteGet", req[r].loadLog) <= 1
    /\ (LoadEndedClean(r) /\ req[r].rget \in {"error", "undecodable"}) =>
         /\ req[r].loadOut = "ret"
         /\ Count("remoteGet", req[r].loadLog) = 1
         /\ req[r].src = (IF Decodable(req[r].local0) THEN "local" ELSE "default")
         /\ req[r].loadRet.v =
              (IF Decodable(req[r].local0) THEN Parse(req[r].local0) ELSE Default(req[r].coll))

C6_Witness ==
  \E r \in Procs :
    /\ LoadEndedClean(r) /\ req[r].rget = "error"
    /\ remoteFile[req[r].coll] # NoFile
    /\ req[r].src = "local"

\* What load* gives with local-only persistence: the local file, else the default.
LocalOnly(q) == IF Decodable(q.local0) THEN Parse(q.local0) ELSE Default(q.coll)

\* C7: a CRUD request none of whose fs calls failed never answers 500, whichever
\* of its remote calls fail or answer 404; when its remote read gave nothing
\* it answers what it answers with local-only persistence.
C7_RemoteNeverFailsRequest ==
  \A r \in Procs :
    (req[r].op \in Handlers /\ req[r].pc = "done" /\ ~req[r].fsFault) =>
      /\ req[r].status \in {200, 400, 404}
      /\ (req[r].loadOut = "ret" /\ req[r].rget # "ok") =>
           LET out == Handle(req[r].op, req[r].params, req[r].body, LocalOnly(req[r]),
                             req[r].now, req[r].newId)
           IN req[r].status = out.status /\ req[r].resp = out.resp

C7_Witness ==
  \E r \in Procs :
    /\ GITHUB_TOKEN
    /\ req[r].op = "post_images" /\ req[r].pc = "done" /\ ~req[r].fsFault
    /\ req[r].rget = "error"
    /\ req[r].saveLog = << "localWrite", "remoteGet", "remotePut" >> /\ ~req[r].remoteOk
    /\ req[r].status = 200

\* C8: without a credential neither load() nor save() makes a remote call; load
\* answers from the local file or the default, save writes the local file, and
\* both end normally.
C8_NoTokenNoRemote ==
  ~GITHUB_TOKEN =>
    \A r \in Procs :
      /\ \A i \in 1..Len(req[r].loadLog) : req[r].loadLog[i] \notin RemoteCalls
      /\ \A i \in 1..Len(req[r].saveLog) : req[r].saveLog[i] \notin RemoteCalls
      /\ req[r].pc \notin {"load_get", "load_refresh", "save_get", "save_put"}
      /\ LoadEndedClean(r) => (req[r].loadOut = "ret" /\ req[r].src \in {"local", "default"})
      /\ SaveEndedClean(r) =>
           (req[r].saveOut = "ret" /\ localFile[req[r].coll] = Stringify(req[r].arg.v))

C8_Witness ==
  \E r \in Procs :
    /\ ~GITHUB_TOKEN
    /\ SaveEndedClean(r)
    /\ req[r].saveLog = << "localWrite" >>
    /\ remoteFile[req[r].coll] = NoFile

\* C9: after save(V) whose commit succeeded and a wipe of the local disk, a
\* load() that reaches the remote returns V and writes the local file again.
C9_SurvivesWipe ==
  \A r \in Procs :
    (/\ LoadEndedClean(r) /\ GITHUB_TOKEN
     /\ req[r].expSave # None /\ req[r].expSave.remoteOk /\ req[r].expSave.wiped
     /\ req[r].rget = "ok") =>
      /\ req[r].loadOut = "ret"
      /\ req[r].loadRet.v = req[r].expSave.val
      /\ localFile[req[r].coll] = Stringify(req[r].expSave.val)

C9_Witness ==
  \E r \in Procs :
    /\ LoadEndedClean(r) /\ GITHUB_TOKEN
    /\ req[r].expSave # None /\ req[r].expSave.remoteOk /\ req[r].expSave.wiped
    /\ req[r].rget = "ok"
    /\ req[r].local0 = NoFile
    /\ localFile[req[r].coll] # NoFile

\* C10: in save() the local write is done before the first remote call; when the
\* local write fails save() raises and makes no remote call.
C10_LocalFirst ==
  \A r \in Procs :
    /\ (\E i \in 1..Len(req[r].saveLog) : req[r].saveLog[i] \in RemoteCalls)
         => (req[r].wrote /\ req[r].saveLog[1] = "localWrite")
    /\ req[r].pc \in {"save_get", "save_put"} => req[r].wrote
    /\ (req[r].saveLog # << >> /\ ~req[r].wrote)
         => (req[r].saveOut = "raise" /\ req[r].saveLog = << "localWrite" >>)

C10_Witness ==
  \E r \in Procs :
    /\ req[r].saveOut = "raise"
    /\ GITHUB_TOKEN
    /\ req[r].saveLog = << "localWrite" >>

\* Position of the first x in log, 0 when it does not occur.
FirstAt(log, x) ==
  IF \E i \in 1..Len(log) : log[i] = x
    THEN CHOOSE i \in 1..Len(log) : log[i] = x /\ \A j \in 1..(i - 1) : log[j] # x
    ELSE 0

\* C11: every axios.put of a save comes after an axios.get of the same save on
\* the same file; it carries the sha exactly when that get succeeded, none when
\* the get answered 404, and is not sent when the get failed otherwise.
C11_GetBeforePut ==
  \A r \in Procs :
    /\ "remotePut" \in {req[r].saveLog[i] : i \in 1..Len(req[r].saveLog)} =>
         /\ GITHUB_TOKEN
         /\ FirstAt(req[r].saveLog, "remoteGet") > 0
         /\ FirstAt(req[r].saveLog, "remoteGet") < FirstAt(req[r].saveLog, "remotePut")
         /\ req[r].sent # None
         /\ req[r].cget \in {"ok", "404"}
         /\ (req[r].sent.v # None) <=> (req[r].cget = "ok")
    /\ req[r].cget = "error" => req[r].sent = None

C11_Witness ==
  \E r \in Procs :
    /\ req[r].op = "save" /\ req[r].pc = "done"
    /\ req[r].cget = "ok" /\ req[r].sent # None /\ req[r].sent.v # None
    /\ req[r].remoteOk

RECURSIVE Flatten(_)
Flatten(m) == IF m = << >> THEN << >> ELSE m[1].val \o Flatten(Tail(m))

\* All the records of a stored collection: the list itself, or the buckets of
\* the mapping one after the other.
Records(c, v) == IF c \in {"projects", "users"} THEN v ELSE Flatten(v)

\* How many records of the stored collection carry this id.
IdCount(c, v, id) == Cardinality({i \in 1..Len(Records(c, v)) : Records(c, v)[i].id = id})

\* C12: when two creating requests on one collection have both loaded before
\* either calls save, and both have answered 200, the local file holds what the
\* later writer saved: its record and not the record of the other.
C12_LostUpdate ==
  \A a \in Procs : \A b \in Procs \ {a} :
    (/\ req[a].raced /\ req[b].raced
     /\ req[a].coll = req[b].coll
     /\ Creates(req[a].op) /\ Creates(req[b].op)
     /\ req[a].pc = "done" /\ req[b].pc = "done"
     /\ req[a].status = 200 /\ req[b].status = 200
     /\ req[a].last)
      => /\ localFile[req[a].coll] = req[a].content
         /\ IdCount(req[a].coll, Parse(localFile[req[a].coll]), req[a].resp.v.id) = 1
         /\ IdCount(req[a].coll, Parse(localFile[req[a].coll]), req[b].resp.v.id) = 0

C12_Witness ==
  \E a \in Procs : \E b \in Procs \ {a} :
    /\ req[a].raced /\ req[b].raced
    /\ req[a].op = "post_projects" /\ req[b].op = "post_projects"
    /\ req[a].pc = "done" /\ req[b].pc = "done"
    /\ req[a].status = 200 /\ req[b].status = 200
    /\ req[a].last
    /\ IdCount("projects", Parse(localFile["projects"]), req[b].resp.v.id) = 0

\* The ids of a list of records, in order.
IdsOf(list) == [i \in 1..Len(list) |-> list[i].id]

\* ids lists every element of the set S once.
IsPermutation(ids, S) ==
  /\ Len(ids) = Cardinality(S)
  /\ {ids[i] : i \in 1..Len(ids)} = S

\* Request r is a GET of a character's images that follows a PATCH reorder of
\* the same character whose imageIds was a permutation of the character's images.
GetAfterReorder(r) ==
  /\ req[r].op = "get_images" /\ req[r].pc = "done" /\ ~req[r].fsFault
  /\ req[r].prev # None
  /\ req[r].prev.v.op = "patch_reorder"
  /\ req[r].prev.v.params.parent = req[r].params.parent
  /\ LET stored == Get(req[r].prev.v.arg.v, req[r].params.parent) IN
       /\ Len(stored) = Cardinality({stored[i].id : i \in 1..Len(stored)})
       /\ IsPermutation(req[r].prev.v.body.imageIds.v, {stored[i].id : i \in 1..Len(stored)})

InOrderOf(r) ==
  /\ req[r].status = 200
  /\ IdsOf(req[r].resp.v) = req[r].prev.v.body.imageIds.v
  /\ \A i \in 1..Len(req[r].resp.v) : req[r].resp.v[i].orderIndex = i - 1

\* C13: after PATCH reorder(imageIds) with imageIds a permutation of the
\* character's images, the following GET of that character's images returns
\* them in the order of imageIds with orderIndex 0, 1, ..., n-1.
C13_ReorderThenGet ==
  \A r \in Procs : GetAfterReorder(r) => InOrderOf(r)

\* C13, where it does hold: when the GET loaded the collection the reorder saved.
C13_ReorderThenGetLoaded ==
  \A r \in Procs :
    (GetAfterReorder(r) /\ req[r].loadRet.v = req[r].prev.v.arg.v) => InOrderOf(r)

C13_Witness ==
  \E r \in Procs :
    /\ GetAfterReorder(r)
    /\ req[r].loadRet.v = req[r].prev.v.arg.v
    /\ req[r].prev.v.body.imageIds.v = << "img-b", "img-a" >>
    /\ InOrderOf(r)

\* Request r is a GET /api/projects that follows a POST /api/projects answered
\* 200 with a new project.
GetAfterPost(r) ==
  /\ req[r].op = "get_projects" /\ req[r].pc = "done" /\ ~req[r].fsFault
  /\ req[r].prev # None
  /\ req[r].prev.v.op = "post_projects"

ListsCreated(r) ==
  /\ req[r].status = 200
  /\ IdCount("projects", req[r].resp.v, req[r].prev.v.resp.v.id) = 1
  /\ \A i \in 1..Len(req[r].resp.v) :
       req[r].resp.v[i].id = req[r].prev.v.resp.v.id
         => req[r].resp.v[i].name = Trim(req[r].prev.v.body.name)

\* C14: after POST /api/projects with a non-blank name answered 200 with a new
\* project, the next GET /api/projects lists a project with that id exactly
\* once, carrying the trimmed name.
C14_PostThenGet ==
  \A r \in Procs : GetAfterPost(r) => ListsCreated(r)

\* C14, where it does hold: when the GET loaded the collection the POST saved.
C14_PostThenGetLoaded ==
  \A r \in Procs :
    (GetAfterPost(r) /\ req[r].loadRet.v = req[r].prev.v.arg.v) => ListsCreated(r)

C14_Witness ==
  \E r \in Procs :
    /\ GetAfterPost(r)
    /\ req[r].loadRet.v = req[r].prev.v.arg.v
    /\ ListsCreated(r)

\* The handlers that address one record by the id in the URL.
Updates == {"put_projects", "put_characters", "put_images", "put_users"}
Deletes == {"delete_projects", "delete_characters", "delete_images", "delete_users"}

\* The id in the URL of request q matches no record of the collection it
\* loaded (for a character: of the project in the URL).
UnknownId(q) ==
  IF q.coll = "characters"
    THEN IndexOfId(Get(q.loadRet.v, q.params.parent), q.params.id) = 0
    ELSE IdCount(q.coll, q.loadRet.v, q.params.id) = 0

\* C15: PUT and DELETE on an id that matches no project, character, image or
\* user of the loaded collection answer 404 with an {error} body.
C15_UnknownIdIs404 ==
  \A r \in Procs :
    (/\ req[r].op \in Updates \cup Deletes
     /\ req[r].pc = "done" /\ ~req[r].fsFault
     /\ req[r].loadOut = "ret"
     /\ UnknownId(req[r]))
      => /\ req[r].status = 404
         /\ req[r].resp # None
         /\ DOMAIN req[r].resp.v = {"error"}
         /\ req[r].saveLog = << >>

C15_Witness ==
  \E r \in Procs :
    /\ req[r].op = "put_projects" /\ req[r].pc = "done" /\ ~req[r].fsFault
    /\ req[r].params.id = "nope"
    /\ Len(req[r].loadRet.v) > 0
    /\ req[r].status = 404

\* C16: POST images answers 400 when url or title is missing, and loads
\* nothing; otherwise it answers 200 with an image whose orderIndex is the
\* number of images the character had in the collection the request loaded.
C16_PostImage ==
  \A r \in Procs :
    (req[r].op = "post_images" /\ req[r].pc = "done" /\ ~req[r].fsFault) =>
      IF req[r].body.url = Undefined \/ req[r].body.title = Undefined
        THEN /\ req[r].status = 400
             /\ DOMAIN req[r].resp.v = {"error"}
             /\ req[r].loadOut = "none" /\ req[r].saveLog = << >>
        ELSE /\ req[r].status = 200
             /\ req[r].resp.v.orderIndex = Len(Get(req[r].loadRet.v, req[r].params.parent))
             /\ req[r].resp.v.id = req[r].newId

C16_Witness ==
  \E r \in Procs :
    /\ req[r].op = "post_images" /\ req[r].pc = "done" /\ ~req[r].fsFault
    /\ req[r].status = 200
    /\ Len(Get(req[r].loadRet.v, req[r].params.parent)) = 1
    /\ req[r].resp.v.orderIndex = 1

C16_WitnessMissingTitle ==
  \E r \in Procs :
    /\ req[r].op = "post_images" /\ req[r].pc = "done"
    /\ req[r].body.url # Undefined /\ req[r].body.title = Undefined
    /\ req[r].status = 400

\* The orderIndex values of a list of images are pairwise distinct.
DistinctOrder(images) ==
  \A i \in 1..Len(images) : \A j \in 1..Len(images) :
    i # j => images[i].orderIndex # images[j].orderIndex

\* C17: after any PATCH reorder of a character, whatever imageIds holds, the
\* orderIndex values of the character's stored images are pairwise distinct.
C17_ReorderDistinct ==
  \A r \in Procs :
    (req[r].op = "patch_reorder" /\ req[r].pc = "done" /\ req[r].status = 200) =>
      DistinctOrder(Get(req[r].arg.v, req[r].params.parent))

\* C17, where it does hold: when imageIds names every image of the character.
C17_ReorderDistinctComplete ==
  \A r \in Procs :
    (/\ req[r].op = "patch_reorder" /\ req[r].pc = "done" /\ req[r].status = 200
     /\ LET stored == Get(req[r].arg.v, req[r].params.parent) IN
          /\ Len(stored) = Cardinality({stored[i].id : i \in 1..Len(stored)})
          /\ {stored[i].id : i \in 1..Len(stored)}
               \subseteq {req[r].body.imageIds.v[i] : i \in 1..Len(req[r].body.imageIds.v)})
      => DistinctOrder(Get(req[r].arg.v, req[r].params.parent))

\* No two records of the collection stored in this file share an id.
UniqueIds(c, text) ==
  Decodable(text) =>
    \A i \in 1..Len(Records(c, Parse(text))) : \A j \in 1..Len(Records(c, Parse(text))) :
      i # j => Records(c, Parse(text))[i].id # Records(c, Parse(text))[j].id

\* C18: whatever POST, PUT and DELETE requests have been served, no two records
\* of a stored collection share an id (generated ids being fresh).
C18_UniqueIds ==
  \A c \in Colls : UniqueIds(c, localFile[c])

\* C18, where it does hold: projects, images and users, whose POST handlers
\* always store the generated id.
C18_UniqueIdsGenerated ==
  \A c \in Colls \ {"characters"} : UniqueIds(c, localFile[c])

\* No two users stored in this file have the same username.
UniqueUsernames(text) ==
  Decodable(text) =>
    \A i \in 1..Len(Parse(text)) : \A j \in 1..Len(Parse(text)) :
      i # j => Parse(text)[i].username # Parse(text)[j].username

\* C19: whatever POST /api/users and PUT /api/users/:id requests have been
\* served one after the other, no two stored users have the same username.
C19_UniqueUsernames == UniqueUsernames(localFile["users"])

\* C19, where it does hold: a POST whose username is, character for character,
\* the username of a stored user answers 400 and stores nothing.
C19_SameTextRejected ==
  \A r \in Procs :
    (/\ req[r].op = "post_users" /\ req[r].pc = "done" /\ ~req[r].fsFault
     /\ req[r].loadOut = "ret"
     /\ \E i \in 1..Len(req[r].loadRet.v) : req[r].loadRet.v[i].username = req[r].body.username)
      => req[r].status = 400 /\ req[r].saveLog = << >>

\* The body of a request gives a value for field f.
Mentioned(b, f) ==
  CASE f \in {"tags", "projects", "imageIds"} -> b[f].kind # "undefined"
    [] f = "orderIndex" -> b[f] # NoIndex
    [] f \in DOMAIN b -> b[f] # Undefined
    [] OTHER -> FALSE

\* The record holds field f (a time stamp that was never set is not held).
Stored(rec, f) == f \in {"createdAt", "updatedAt"} => rec[f] # NoTime

\* The record a PUT addresses, before and after.
RecordBefore(q) == Records(q.coll, q.loadRet.v)[IndexOfId(Records(q.coll, q.loadRet.v), q.params.id)]
RecordAfter(q) == Records(q.coll, q.arg.v)[IndexOfId(Records(q.coll, q.loadRet.v), q.params.id)]

PutDone(r) == req[r].op \in Updates /\ req[r].pc = "done" /\ req[r].status = 200

\* C20 as stated: a successful PUT leaves the record's id equal to the id in the
\* URL, whatever the body holds, and keeps every stored field the body does
\* not mention.
C20_PutKeepsAll ==
  \A r \in Procs :
    PutDone(r) =>
      /\ RecordAfter(req[r]).id = req[r].params.id
      /\ req[r].resp.v.id = req[r].params.id
      /\ \A f \in DOMAIN RecordBefore(req[r]) :
           (~Mentioned(req[r].body, f) /\ Stored(RecordBefore(req[r]), f))
             => RecordAfter(req[r])[f] = RecordBefore(req[r])[f]

\* C20: a successful PUT leaves the record's id equal to the id in the URL,
\* whatever the body holds, and keeps every stored field the body does not
\* mention other than updatedAt, which the handler sets itself.
C20_PutKeepsRest ==
  \A r \in Procs :
    PutDone(r) =>
      /\ RecordAfter(req[r]).id = req[r].params.id
      /\ req[r].resp.v.id = req[r].params.id
      /\ \A f \in DOMAIN RecordBefore(req[r]) \ {"updatedAt"} :
           (~Mentioned(req[r].body, f) /\ Stored(RecordBefore(req[r]), f))
             => RecordAfter(req[r])[f] = RecordBefore(req[r])[f]

C20_Witness ==
  \E r \in Procs :
    /\ PutDone(r)
    /\ req[r].op = "put_characters"
    /\ req[r].body.id = "other"
    /\ req[r].body.firstName = Undefined
    /\ RecordAfter(req[r]).id = "char-a"
    /\ RecordAfter(req[r]).firstName = "Ada"

\* C21: a request whose own calls settle runs to completion and gets its
\* response, however long the other request stays at a remote call.
C21_OthersComplete == InFlight(Other) ~> ~InFlight(Other)

C21_Witness ==
  /\ req[Other].pc = "done" /\ req[Other].status = 200
  /\ req[Other].hung # None
  /\ req[req[Other].hung.v.who].pc = req[Other].hung.v.at

\* load* of request r took the default: nothing came from the repository and
\* there was no local file.
TookDefault(r) ==
  /\ LoadEndedClean(r) /\ req[r].pc = "done"
  /\ req[r].loadOut = "ret" /\ req[r].src = "default"
  /\ req[r].local0 = NoFile

\* C22: for each collection, a load() that reaches the default step writes the
\* default to the local file before it returns, so the file exists afterwards.
C22_DefaultSeeded ==
  \A r \in Procs : TookDefault(r) => localFile[req[r].coll] # NoFile

\* C22, where it does hold: loadProjects.
C22_ProjectsSeeded ==
  \A r \in Procs :
    (TookDefault(r) /\ req[r].coll = "projects")
      => localFile["projects"] = Stringify(defaultProjects)


\* ---- C23
HasOrder(img) == img.orderIndex # NoIndex

\* Image a has to be shown before image b: a lower orderIndex, an orderIndex
\* against none, or the same rank and an earlier createdAt.
ShownBefore(a, b) ==
  \/ HasOrder(a) /\ HasOrder(b) /\ a.orderIndex < b.orderIndex
  \/ HasOrder(a) /\ ~HasOrder(b)
  \/ /\ HasOrder(a) = HasOrder(b) /\ a.orderIndex = b.orderIndex
     /\ a.createdAt # NoTime /\ b.createdAt # NoTime /\ a.createdAt < b.createdAt

InDisplayOrder(out) == \A i, j \in 1..Len(out) : i < j => ~ShownBefore(out[j], out[i])

GotImages(r) == req[r].op = "get_images" /\ req[r].pc = "done" /\ req[r].status = 200

\* C23: the images GET /api/characters/:id/images answers are in ascending
\* orderIndex, every image without orderIndex after every image with one, and
\* images of equal rank in ascending createdAt.
C23_DisplayOrder == \A r \in Procs : GotImages(r) => InDisplayOrder(req[r].resp.v)

\* C23, where it does hold: when every orderIndex stored is below the rank
\* 999999 the handler gives to an image without one.
C23_DisplayOrderBelowSentinel ==
  \A r \in Procs :
    (GotImages(r) /\ \A i \in 1..Len(req[r].resp.v) : req[r].resp.v[i].orderIndex < MissingOrder)
      => InDisplayOrder(req[r].resp.v)

C23_Witness ==
  /\ GotImages(Caller) /\ Len(req[Caller].resp.v) = 2
  /\ req[Caller].resp.v # Get(req[Caller].loadRet.v, "char-1")
  /\ ~HasOrder(req[Caller].resp.v[2]) /\ HasOrder(req[Caller].resp.v[1])



\* ---- C24
\* load* read the remote file and decoded it, and its refresh of the local
\* file failed: it went on to the local read.
RefreshFailed(r) ==
  /\ req[r].loadOut # "none"
  /\ req[r].rget = "ok"
  /\ \E i \in 1..Len(req[r].loadLog) : req[r].loadLog[i] = "localRead"

\* C24: when load* has read and decoded the remote file and the refresh of the
\* local file fails, load* returns the decoded remote value and raises nothing.
C24_RefreshFailureIgnored ==
  \A r \in Procs :
    RefreshFailed(r) => req[r].loadOut = "ret" /\ req[r].loadRet = Some(Parse(req[r].content))



\* ---- C25
\* load* has returned the value it read from the remote file, and nobody has
\* touched the collection since.
LoadedRemote(r) ==
  /\ req[r].op = "load" /\ req[r].pc = "done"
  /\ req[r].loadOut = "ret" /\ req[r].src = "remote"
  /\ ~req[r].dist

\* C25: when load* returns a value read from the remote store, its refresh
\* having succeeded, the local file holds exactly the text read from the remote.
C25_LocalIsRawRemote ==
  \A r \in Procs :
    LoadedRemote(r) =>
      /\ localFile[req[r].coll] = req[r].content
      /\ localFile[req[r].coll] = FromBase64(remoteFile[req[r].coll].content)

C25_Witness ==
  /\ LoadedRemote(Caller)
  /\ req[Caller].local0 # req[Caller].content
  /\ req[Caller].content # Stringify(Parse(req[Caller].content))



\* ---- C26
\* The sha GitHub wants with a PUT on the file as it is now.
CurrentSha(c) == IF remoteFile[c] = NoFile THEN None ELSE Some(remoteFile[c].sha)

\* C26: the sha save* sends is the one of the file as commitToGitHub's own GET
\* found it, whatever the load* before it had read; a save* whose PUT succeeds
\* returns normally and leaves the saved text in the repository, an
\* out-of-band edit made after the load* included.
C26_SaveOverwritesEdit ==
  \A r \in Procs :
    (req[r].op = "save" /\ ~req[r].dist) =>
      /\ req[r].pc = "save_put" => req[r].sha = CurrentSha(req[r].coll)
      /\ (req[r].pc = "done" /\ req[r].remoteOk) =>
           /\ req[r].saveOut = "ret"
           /\ req[r].sent = Some(req[r].sha)
           /\ remoteFile[req[r].coll] = RemoteFileOf(req[r].content)

\* A save* that succeeded remotely after the file it had loaded was replaced
\* out of band by another file.
C26_Witness ==
  /\ req[Caller].op = "save" /\ req[Caller].pc = "done" /\ req[Caller].remoteOk
  /\ ~req[Caller].dist
  /\ req[Caller].prev # None /\ req[Caller].prev.v.edited
  /\ req[Caller].sent # Some(None)
  /\ req[Caller].sent # Some(Some(req[Caller].prev.v.sha))



\* ---- C27
\* save* has returned and both its remote calls succeeded.
SavedRemotely(r) ==
  /\ req[r].op = "save" /\ req[r].pc = "done"
  /\ req[r].saveOut = "ret" /\ req[r].remoteOk

Mirrored(c) ==
  remoteFile[c] # NoFile /\ FromBase64(remoteFile[c].content) = localFile[c]

\* C27: with GITHUB_TOKEN set, once no save* is in flight and every remote call
\* made has succeeded, the repository holds the text the local file holds,
\* however the awaits of concurrent save* calls interleaved.
C27_MirrorAtQuiescence ==
  \A c \in Colls :
    (/\ GITHUB_TOKEN
     /\ \A r \in Procs : SavedRemotely(r) /\ req[r].coll = c)
      => Mirrored(c)

\* C27, where it does hold: after a save* that ran alone.
C27_MirrorAfterOneSave ==
  \A r \in Procs :
    (SavedRemotely(r) /\ \A q \in Procs \ {r} : req[q].pc = "idle")
      => Mirrored(req[r].coll)



\* ---- C28
\* PATCH reorder has computed the list it saves.
Reordered(r) == req[r].op = "patch_reorder" /\ req[r].arg # None

ImagesBefore(r) == Get(req[r].loadRet.v, req[r].params.parent)
ImagesAfter(r) == Get(req[r].arg.v, req[r].params.parent)

Named(r, id) == \E k \in 1..Len(req[r].body.imageIds.v) : req[r].body.imageIds.v[k] = id

\* C28: in a reorder, every image of the character whose id is not in imageIds
\* is saved with all its fields as they were, orderIndex included, and an id
\* of imageIds that matches no image adds nothing: the saved list holds the
\* images that were there, as many as before.
C28_UnnamedUntouched ==
  \A r \in Procs :
    Reordered(r) =>
      /\ Len(ImagesAfter(r)) = Len(ImagesBefore(r))
      /\ \A j \in 1..Len(ImagesAfter(r)) :
           \E i \in 1..Len(ImagesBefore(r)) : ImagesBefore(r)[i].id = ImagesAfter(r)[j].id
      /\ \A i \in 1..Len(ImagesBefore(r)) :
           ~Named(r, ImagesBefore(r)[i].id) =>
             Count(ImagesBefore(r)[i], ImagesAfter(r)) = Count(ImagesBefore(r)[i], ImagesBefore(r))

\* A reorder that names an unknown id and one of two images, and moves the
\* image it does not name.
C28_Witness ==
  /\ Reordered(Caller) /\ req[Caller].pc = "done" /\ req[Caller].status = 200
  /\ req[Caller].body.imageIds.v = << "nope", "old-1" >>
  /\ Len(ImagesBefore(Caller)) = 2
  /\ ImagesBefore(Caller)[2].orderIndex = NoIndex
  /\ ImagesAfter(Caller)[1] = ImagesBefore(Caller)[2]



\* ---- C29
\* The order GET /api/characters/:id/images gives a stored list.
Displayed(images) == SortByKey(images, DisplayKey)

\* C29: the list a reorder saves for the character is in the order the GET
\* handler displays it in, also when some images have no orderIndex.
C29_SavedAsDisplayed ==
  \A r \in Procs : Reordered(r) => IdsOf(Displayed(ImagesAfter(r))) = IdsOf(ImagesAfter(r))

\* C29, where it does hold: when imageIds names every image of the character once.
C29_SavedAsDisplayedComplete ==
  \A r \in Procs :
    (/\ Reordered(r)
     /\ Len(ImagesBefore(r)) = Len(req[r].body.imageIds.v)
     /\ IsPermutation(req[r].body.imageIds.v,
                      {ImagesBefore(r)[i].id : i \in 1..Len(ImagesBefore(r))}))
      => IdsOf(Displayed(ImagesAfter(r))) = IdsOf(ImagesAfter(r))



\* ---- C30
\* POST /api/characters/:id/images has built the list it saves.
PostedImage(r) == req[r].op = "post_images" /\ req[r].arg # None

ShownLast(r) == Displayed(ImagesAfter(r))[Len(ImagesAfter(r))]

\* C30: after any creates, deletes and reorders of a character's images, the
\* image a POST adds is the last one of the saved list in display order.
C30_NewImageLast ==
  \A r \in Procs : PostedImage(r) => ShownLast(r).id = req[r].newId

\* C30, where it does hold: when no image of the character has an orderIndex
\* above the number of images the character has.
C30_NewImageLastNoGap ==
  \A r \in Procs :
    (/\ PostedImage(r)
     /\ \A i \in 1..Len(ImagesBefore(r)) : ImagesBefore(r)[i].orderIndex <= Len(ImagesBefore(r)))
      => ShownLast(r).id = req[r].newId

\* ---- C31
\* load* was called with a local file on disk and returned the default value.
DefaultOverLocal(r) ==
  /\ req[r].op = "load" /\ req[r].pc = "done" /\ ~req[r].dist
  /\ req[r].loadOut = "ret" /\ req[r].src = "default"
  /\ req[r].local0 # NoFile

\* C31: load* writes the default to the local file only when there is no local
\* file: a file that is there is left as it was, also when reading or decoding
\* it failed.
C31_LocalNotOverwritten ==
  \A r \in Procs : DefaultOverLocal(r) => localFile[req[r].coll] = req[r].local0

\* C31, where it does hold: loadCharacters, loadCharacterImages and loadUsers,
\* which never write a default.
C31_LocalNotOverwrittenByOthers ==
  \A r \in Procs :
    (DefaultOverLocal(r) /\ req[r].coll # "projects") => localFile[req[r].coll] = req[r].local0

\* ---- C32
\* The request was answered 400 or 404.
Refused(r) ==
  req[r].op \in Handlers /\ req[r].pc = "done" /\ req[r].status \in {400, 404}

\* The step is a call of fs.writeFile or of axios.put made by a request on
\* collection c, inside load* or inside save*.
WritesIn(r, c, log, call) ==
  /\ req[r].coll = c
  /\ req'[r][log] = Append(req[r][log], call)

\* C32: a request answered 400 or 404 has called no save*; as the repository
\* changes only in the PUT of a save* and the local file only in a write of a
\* save* or of a load* (refresh, seeding), such a request leaves the repository
\* as it was and changes the local file at most inside load*.
C32_RefusedSavesNothing ==
  /\ [](\A r \in Procs :
          Refused(r) => /\ req[r].saveLog = << >> /\ req[r].saveOut = "none"
                        /\ ~req[r].wrote /\ req[r].arg = None)
  /\ [][\A c \in Colls :
          /\ remoteFile'[c] # remoteFile[c] => \E r \in Procs : WritesIn(r, c, "saveLog", "remotePut")
          /\ localFile'[c] # localFile[c] =>
               \E r \in Procs : \/ WritesIn(r, c, "saveLog", "localWrite")
                                \/ WritesIn(r, c, "loadLog", "localWrite")]_vars

\* A PUT of an unknown project answered 404 after its load* had refreshed the
\* local file from the repository.
C32_Witness ==
  /\ Refused(Caller) /\ req[Caller].status = 404
  /\ req[Caller].op = "put_projects"
  /\ req[Caller].src = "remote"
  /\ localFile["projects"] # req[Caller].local0

\* A POST of a user whose username is taken, answered 400 after the load*.
C32_WitnessTaken ==
  /\ Refused(Caller) /\ req[Caller].status = 400
  /\ req[Caller].op = "post_users"
  /\ req[Caller].loadOut = "ret"

\* ---- C33
\* A create request that lacks a required field, or a reorder request whose
\* imageIds is not an array.
MissingRequired(h, b) ==
  CASE h = "post_projects"   -> Falsy(b.name) \/ Falsy(Trim(b.name))
    [] h = "post_characters" -> Falsy(b.firstName) \/ Falsy(b.lastName)
    [] h = "post_images"     -> Falsy(b.url) \/ Falsy(b.title)
    [] h = "post_users"      -> Falsy(b.username) \/ Falsy(b.password) \/ Falsy(b.role)
    [] h = "patch_reorder"   -> b.imageIds.kind # "array"
    [] OTHER -> FALSE

\* C33: a create request with a required field missing, or a reorder request
\* whose imageIds is not an array, is answered 400 at once: it calls no load*
\* and no save*, and the step that answers it leaves the local files and the
\* repository as they are.
C33_ValidationFirst ==
  /\ [](\A r \in Procs :
          (req[r].pc # "idle" /\ MissingRequired(req[r].op, req[r].body)) =>
            /\ req[r].pc = "done" /\ req[r].status = 400
            /\ req[r].loadLog = << >> /\ req[r].loadOut = "none"
            /\ req[r].saveLog = << >> /\ req[r].saveOut = "none")
  /\ [][\A r \in Procs :
          (req'[r] # req[r] /\ MissingRequired(req'[r].op, req'[r].body))
            => (localFile' = localFile /\ remoteFile' = remoteFile)]_vars

\* A reorder without imageIds refused while images are stored.
C33_Witness ==
  /\ req[Caller].op = "patch_reorder" /\ req[Caller].body.imageIds = NotGiven
  /\ req[Caller].pc = "done" /\ req[Caller].status = 400
  /\ req[Caller].loadLog = << >>
  /\ localFile["images"] # NoFile

\* ---- C34
\* The user endpoints that answer with users.
UserAnswers == {"get_users", "post_users", "put_users"}

\* A user endpoint has answered from the users it loaded.
AnsweredUsers(r) ==
  /\ req[r].op \in UserAnswers /\ req[r].pc = "done"
  /\ req[r].loadOut = "ret" /\ req[r].status \in {200, 400, 404}

\* The JSON body has no password field, in the object or in the objects of the array.
NoPassword(r) ==
  IF req[r].op = "get_users" /\ req[r].status = 200
    THEN \A i \in 1..Len(req[r].resp.v) : "password" \notin DOMAIN req[r].resp.v[i]
    ELSE "password" \notin DOMAIN req[r].resp.v

\* The same users with every password replaced.
WithPasswords(users, pw) == [i \in 1..Len(users) |-> [users[i] EXCEPT !.password = pw]]

\* What the handler of request r answers on the store `users`.
AnswerOn(r, users) ==
  Handle(req[r].op, req[r].params, req[r].body, users, req[r].now, req[r].newId)

\* C34: the bodies GET /api/users, POST /api/users and PUT /api/users/:id answer
\* with hold no password field, and the same request on a store that differs
\* only in its passwords gets the same status and body.
C34_NoPasswordInAnswers ==
  \A r \in Procs :
    AnsweredUsers(r) =>
      /\ NoPassword(r)
      /\ \A pw \in {"pw", "pw2", "secret"} :
           /\ AnswerOn(r, WithPasswords(req[r].loadRet.v, pw)).status = req[r].status
           /\ AnswerOn(r, WithPasswords(req[r].loadRet.v, pw)).resp = req[r].resp

\* A PUT that changed the password of a stored user, and a GET of stored users.
C34_Witness ==
  /\ AnsweredUsers(Caller) /\ req[Caller].op = "put_users" /\ req[Caller].status = 200
  /\ req[Caller].body.password = "pw2"
  /\ req[Caller].loadRet.v[IndexOfId(req[Caller].loadRet.v, "user-a")].password = "pw"
  /\ req[Caller].arg.v[IndexOfId(req[Caller].arg.v, "user-a")].password = "pw2"

C34_WitnessList ==
  /\ AnsweredUsers(Caller) /\ req[Caller].op = "get_users"
  /\ Len(req[Caller].resp.v) > 0
  /\ req[Caller].loadRet.v[1].password = "pw2"

\* ---- C35
\* The step changes the stored content of collection c, on disk or in the repository.
Changes(c) == localFile'[c] # localFile[c] \/ remoteFile'[c] # remoteFile[c]

\* A POST of a character or of an image has run to its end with no fs failure.
Created(r) ==
  /\ req[r].op \in {"post_characters", "post_images"}
  /\ req[r].pc = "done" /\ req[r].loadOut = "ret" /\ ~req[r].fsFault

\* C35: a handler writes only the collection it serves, so deleting a project
\* leaves characters, images and users as stored and deleting a character
\* leaves its images; a POST of a character or image answers 200 and stores
\* the record under the parent id given, whether or not such a parent exists.
C35_OwnCollectionOnly ==
  /\ [][\A c \in Colls : Changes(c) => \E r \in Procs : InFlight(r) /\ req[r].coll = c]_vars
  /\ [](\A r \in Procs :
          Created(r) =>
            /\ req[r].status = 200
            /\ HasKey(req[r].arg.v, req[r].params.parent)
            /\ IndexOfId(Get(req[r].arg.v, req[r].params.parent), req[r].newId) # 0)

\* The project was deleted while its character is stored, and still is.
C35_Witness ==
  /\ req[Caller].op = "delete_projects" /\ req[Caller].pc = "done" /\ req[Caller].status = 200
  /\ Decodable(localFile["projects"])
  /\ IndexOfId(Parse(localFile["projects"]), "proje-1") = 0
  /\ Decodable(localFile["characters"])
  /\ IndexOfId(Get(Parse(localFile["characters"]), "proje-1"), "char-a") # 0

\* A character created under a project id that no stored project has.
C35_WitnessGhost ==
  /\ Created(Caller) /\ req[Caller].op = "post_characters"
  /\ req[Caller].params.parent = "ghost"
  /\ Decodable(localFile["projects"])
  /\ IndexOfId(Parse(localFile["projects"]), "ghost") = 0
  /\ req[Caller].status = 200

\* ---- C36
\* An exception reached the catch of the handler: load* or save* threw.
Threw(r) == req[r].loadOut = "raise" \/ req[r].saveOut = "raise"

\* C36: a request whose awaited calls all settle ends, and it has then sent
\* exactly one response; while it runs it has sent none; when load* or save*
\* threw, the response is a 500 with an {error} body.
C36_OneResponse ==
  /\ [](\A r \in Procs :
          req[r].op \in Handlers =>
            /\ req[r].answers = (IF req[r].pc = "done" THEN 1 ELSE 0)
            /\ req[r].pc = "done" => (req[r].status # 0 /\ req[r].resp # None)
            /\ (req[r].pc = "done" /\ Threw(r)) =>
                 (req[r].status = 500 /\ DOMAIN req[r].resp.v = {"error"}))
  /\ \A r \in Procs : InFlight(r) ~> (req[r].pc = "done" /\ req[r].answers = 1)

\* A PUT of an image whose save* threw at the local write, answered 500.
C36_Witness ==
  /\ req[Other].op = "put_images" /\ req[Other].pc = "done"
  /\ req[Other].saveOut = "raise"
  /\ req[Other].status = 500 /\ req[Other].answers = 1

====
